---- MODULE Spec2Model ----
(***************************************************************************)
(* The calendar event codec of jmap-mcp (createICalString, parseICalEvent, *)
(* updateICalString) as a state machine over one stored iCalendar          *)
(* document.                                                               *)
(*                                                                         *)
(* A document is the jCal tree that ical.js builds and prints: for every   *)
(* property name the sequence of the properties carrying that name, in     *)
(* document order (<<>> when there is none), plus the VALARM sub-blocks.   *)
(* An optional JavaScript value is a sequence of length 0 (undefined) or 1.*)
(*                                                                         *)
(* Specifications: Spec and CodecSpec (one stored event created, fetched,  *)
(* patched and read), PrioritySpec (priorities of any value), TextSpec (the*)
(* codec on raw calendar data, broken data included), FieldSpec (a text    *)
(* value on its content line), CallSpec (codec calls interleaved),         *)
(* ToolSpec (update_event calls against the CalDAV server), MailSpec (the  *)
(* search, update and send tools against the JMAP server), MailboxSpec     *)
(* (mailbox lookups through the mailbox cache) and CalendarSpec and        *)
(* CalendarFairSpec (calendar lookups through the calendar cache).         *)
(***************************************************************************)
EXTENDS Integers, Sequences, FiniteSets, TLC

VARIABLES
    doc,      \* the stored document: <<>> before there is one, else <<d>>
    uid,      \* the uid handed back by createICalString / carried by the fetched document
    params,   \* the CreateEventParams of the create that made doc (<<>> if fetched)
    patch,    \* the UpdateEventParams of the last update (<<>> if none yet)
    parsed,   \* what parseICalEvent returned for doc: <<>> not called, else <<result>>
    now,      \* the clock reading the next operation will see
    nUpdates, \* how many updates were applied so far
    text,     \* a calendar object's data as a server handed it back: <<>> or <<text>>
    result,   \* the outcome of the last codec call on text: <<>> or <<outcome>>
    field,    \* one text value written to a content line and read back: <<>> or <<f>>
    calls,    \* per caller, the codec call it is in: <<>> or <<activation>>
    server,   \* the calendar object the CalDAV server holds at the event's url
    ops,      \* per update_event call, where its handler is and what it holds
    emails,   \* the emails of the JMAP account: per id <<>> or <<email>>
    submissions,  \* the ids of the emails the JMAP server has an EmailSubmission for
    send,     \* the send call: where its handler is and what it holds
    mailCall, \* the last search or update call: <<>> or <<[tool, args, ...]>>
    mailboxCache,           \* utils.ts mailboxCache: <<>> (null) or <<map>>
    mailboxCacheAccountId,  \* utils.ts mailboxCacheAccountId: <<>> (null) or <<id>>
    lookups,  \* per caller, the resolveMailbox / getMailboxName call it is in
    calendars,       \* the calendars the CalDAV server lists now
    calendarsCache,  \* registerCalendarTools' calendarsCache: <<>> (null) or <<list>>
    resolving \* the resolveCalendar call: where it is and what it answered

\* the state of one stored event
eventVars == <<doc, uid, params, patch, parsed, now, nUpdates>>

\* the state of the codec called on raw calendar object data
textVars == <<text, result>>

\* the state outside the codec's event and text operations
extraVars == <<field, calls, server, ops>>

\* the JMAP account and the email tool calls on it
mailVars == <<emails, submissions, send, mailCall>>

\* the mailbox cache and the lookups through it
cacheVars == <<mailboxCache, mailboxCacheAccountId, lookups>>

\* the calendar list, its cache and the lookup through it
calendarVars == <<calendars, calendarsCache, resolving>>

\* the state of the email tools, of the mailbox cache and of the calendar cache
serviceVars == <<mailVars, cacheVars, calendarVars>>

vars == <<eventVars, textVars, extraVars, serviceVars>>

----------------------------------------------------------------------------
(* Bounds *)

\* longest chain of update_event calls on one document
MaxUpdates == 2
\* largest reminder offset (minutes, hours or days) drawn as input
MaxOffset == 2
\* largest recurrence interval and count drawn as input
MaxInterval == 2
MaxCount == 2
\* longest text value written to a content line
MaxLen == 3
\* logical operations calling the codec at the same time
NumCallers == 2
\* update_event calls in flight at the same time
NumOps == 2
\* how often another CalDAV client stores the event
MaxStores == 2
\* how many callers look mailboxes up at the same time
NumLookups == 2

----------------------------------------------------------------------------
(* JavaScript helpers *)

None == <<>>
Some(v) == <<v>>

\* truthiness of an optional string: undefined and "" are falsy
TruthyStr(o) == o # <<>> /\ o[1] # ""
\* truthiness of an optional number: undefined and 0 are falsy
TruthyNum(o) == o # <<>> /\ o[1] # 0
\* truthiness of an optional boolean
TruthyBool(o) == o = <<TRUE>>

\* String.prototype.toUpperCase on the strings the codec upper-cases
toUpperCase(s) ==
    CASE s = "confirmed" -> "CONFIRMED"
      [] s = "tentative" -> "TENTATIVE"
      [] s = "cancelled" -> "CANCELLED"
      [] s = "opaque" -> "OPAQUE"
      [] s = "transparent" -> "TRANSPARENT"
      [] s = "display" -> "DISPLAY"
      [] s = "email" -> "EMAIL"
      [] s = "daily" -> "DAILY"
      [] s = "weekly" -> "WEEKLY"
      [] s = "monthly" -> "MONTHLY"
      [] s = "yearly" -> "YEARLY"
      [] s = "mo" -> "MO"
      [] s = "we" -> "WE"
      [] OTHER -> s

\* Array.prototype.join
RECURSIVE join(_, _)
join(arr, sep) ==
    IF arr = <<>> THEN ""
    ELSE IF Len(arr) = 1 THEN arr[1]
    ELSE arr[1] \o sep \o join(Tail(arr), sep)

----------------------------------------------------------------------------
(* ical.js: components, properties, values *)

\* Component.updatePropertyWithValue: set the first property of that name, or add one
updatePropertyWithValue(props, v) ==
    IF props = <<>> THEN <<v>> ELSE [props EXCEPT ![1] = v]

\* Component.removeProperty(name): removes the first property of that name only
removeProperty(props) ==
    IF props = <<>> THEN <<>> ELSE Tail(props)

\* Component.removeAllProperties(name)
removeAllProperties(props) == <<>>

\* Component.addProperty
addProperty(props, p) == Append(props, p)

\* ICAL.Time.fromJSDate(date, false): a date-time with the date's clock fields
fromJSDate(date) == [isDate |-> FALSE, day |-> date.day, time |-> date.time]

\* Printing an ICAL.Time: a DATE value carries no clock fields
stringifyTime(t) == IF t.isDate THEN [t EXCEPT !.time = 0] ELSE t

\* ICAL.Time.toJSDate
toJSDate(t) == [day |-> t.day, time |-> IF t.isDate THEN 0 ELSE t.time]

\* Printing an ICAL.Recur (Recur.toJSON): INTERVAL only when above 1,
\* COUNT and UNTIL each when set, BYDAY when a part was set
stringifyRecur(r) ==
    [freq |-> r.freq,
     count |-> r.count,
     interval |-> IF r.interval > 1 THEN Some(r.interval) ELSE None,
     byday |-> r.byday,
     until |-> IF r.until = <<>> THEN None ELSE Some(stringifyTime(r.until[1]))]

\* Reading an RRULE value back into an ICAL.Recur: interval defaults to 1
parseRecur(j) ==
    [freq |-> j.freq,
     count |-> j.count,
     interval |-> IF j.interval = <<>> THEN 1 ELSE j.interval[1],
     byday |-> j.byday,
     until |-> j.until]

----------------------------------------------------------------------------
(* iCal generation *)

generateEventUid(timestamp, random) ==
    ToString(timestamp) \o "-" \o random \o "@fastmail-aibo"

roleToICalRole(role) ==
    CASE role = "required" -> "REQ-PARTICIPANT"
      [] role = "optional" -> "OPT-PARTICIPANT"
      [] role = "non-participant" -> "NON-PARTICIPANT"
      [] role = "chair" -> "CHAIR"
      [] OTHER -> "REQ-PARTICIPANT"

\* reminderToDuration trying minutes first
reminderToDurationMinutesFirst(reminder) ==
    IF TruthyNum(reminder.minutes) THEN "-PT" \o ToString(reminder.minutes[1]) \o "M"
    ELSE IF TruthyNum(reminder.hours) THEN "-PT" \o ToString(reminder.hours[1]) \o "H"
    ELSE IF TruthyNum(reminder.days) THEN "-P" \o ToString(reminder.days[1]) \o "D"
    ELSE "-PT15M"

reminderToDuration(reminder) ==
    IF TruthyNum(reminder.days) THEN "-P" \o ToString(reminder.days[1]) \o "D"
    ELSE IF TruthyNum(reminder.hours) THEN "-PT" \o ToString(reminder.hours[1]) \o "H"
    ELSE IF TruthyNum(reminder.minutes) THEN "-PT" \o ToString(reminder.minutes[1]) \o "M"
    ELSE "-PT15M"

\* the ORGANIZER property written by createICalString and updateICalString
organizerProp(organizer) ==
    [value |-> "mailto:" \o organizer.email,
     cn |-> IF TruthyStr(organizer.name) THEN organizer.name ELSE None]

\* one ATTENDEE property
attendeeProp(attendee) ==
    [value |-> "mailto:" \o attendee.email,
     cn |-> IF TruthyStr(attendee.name) THEN attendee.name ELSE None,
     rsvp |-> IF attendee.rsvp # <<FALSE>> THEN "TRUE" ELSE "FALSE",
     partstat |-> "NEEDS-ACTION",
     role |-> IF TruthyStr(attendee.role) THEN Some(roleToICalRole(attendee.role[1])) ELSE None]

\* one VALARM sub-block
valarmComp(reminder, summary) ==
    [action |-> toUpperCase(IF reminder.action = <<>> THEN "display" ELSE reminder.action[1]),
     trigger |-> reminderToDuration(reminder),
     description |-> IF reminder.action = <<>> \/ reminder.action = <<"display">>
                     THEN Some(summary) ELSE None]

\* the METHOD property of the VCALENDAR envelope
createMethod(p) == <<"REQUEST">>

\* the RRULE property
createRRule(p) ==
    IF p.recurrence = <<>> THEN <<>>
    ELSE LET rec == p.recurrence[1]
             rrule == [freq |-> toUpperCase(rec.frequency),
                       interval |-> IF TruthyNum(rec.interval) THEN rec.interval[1] ELSE 1,
                       count |-> IF TruthyNum(rec.count) THEN rec.count ELSE None,
                       until |-> IF rec.until # <<>> THEN Some(fromJSDate(rec.until[1])) ELSE None,
                       byday |-> IF rec.byDay # <<>> /\ Len(rec.byDay[1]) > 0
                                 THEN Some([i \in 1..Len(rec.byDay[1]) |-> toUpperCase(rec.byDay[1][i])]) ELSE None]
         IN  <<stringifyRecur(rrule)>>

createICalString(p, timestamp, random) ==
    LET allDay == TruthyBool(p.allDay)
        time(date) == stringifyTime([fromJSDate(date) EXCEPT !.isDate = allDay])
    IN  [method |-> createMethod(p),
         uid |-> <<generateEventUid(timestamp, random)>>,
         dtstamp |-> <<timestamp>>,
         summary |-> <<p.summary>>,
         dtstart |-> <<time(p.start)>>,
         dtend |-> IF p.end # <<>> THEN <<time(p.end[1])>> ELSE <<>>,
         location |-> IF TruthyStr(p.location) THEN p.location ELSE <<>>,
         description |-> IF TruthyStr(p.description) THEN p.description ELSE <<>>,
         status |-> IF TruthyStr(p.status) THEN <<toUpperCase(p.status[1])>> ELSE <<>>,
         url |-> IF TruthyStr(p.url) THEN p.url ELSE <<>>,
         categories |-> IF p.categories # <<>> /\ Len(p.categories[1]) > 0
                        THEN << <<join(p.categories[1], ",")>> >> ELSE <<>>,
         priority |-> IF p.priority # <<>> /\ p.priority[1] >= 1 /\ p.priority[1] <= 9
                      THEN p.priority ELSE <<>>,
         transp |-> IF TruthyStr(p.transparency) THEN <<toUpperCase(p.transparency[1])>> ELSE <<>>,
         organizer |-> IF p.organizer # <<>> THEN <<organizerProp(p.organizer[1])>> ELSE <<>>,
         attendee |-> IF p.attendees # <<>> THEN [i \in 1..Len(p.attendees[1]) |-> attendeeProp(p.attendees[1][i])] ELSE <<>>,
         valarm |-> IF p.reminders # <<>>
                    THEN [i \in 1..Len(p.reminders[1]) |-> valarmComp(p.reminders[1][i], p.summary)]
                    ELSE <<>>,
         rrule |-> createRRule(p)]

----------------------------------------------------------------------------
(* iCal parsing *)

\* value.toLowerCase().startsWith("mailto:") ? value.slice(7) : value
extractEmail(value) ==
    IF Len(value) >= 7 /\ SubSeq(value, 1, 7) \in {"mailto:", "MAILTO:", "Mailto:"}
    THEN SubSeq(value, 8, Len(value))
    ELSE value

\* String.prototype.toLowerCase on the frequencies an RRULE carries
toLowerCase(s) ==
    CASE s = "DAILY" -> "daily"
      [] s = "WEEKLY" -> "weekly"
      [] s = "MONTHLY" -> "monthly"
      [] s = "YEARLY" -> "yearly"
      [] s = "Inbox" -> "inbox"
      [] s = "Drafts" -> "drafts"
      [] s = "Sent" -> "sent"
      [] s = "Archive" -> "archive"
      [] s = "Personal" -> "personal"
      [] s = "Work" -> "work"
      [] s = "Home" -> "home"
      [] OTHER -> s

\* freq.replace("ly", ""): the first "ly" of the string is dropped
replaceLy(freq) ==
    CASE freq = "daily" -> "dai"
      [] freq = "weekly" -> "week"
      [] freq = "monthly" -> "month"
      [] freq = "yearly" -> "year"
      [] OTHER -> freq

\* dayNames[d] ?? d
dayNames(d) ==
    CASE d = "SU" -> "Sunday"
      [] d = "MO" -> "Monday"
      [] d = "TU" -> "Tuesday"
      [] d = "WE" -> "Wednesday"
      [] d = "TH" -> "Thursday"
      [] d = "FR" -> "Friday"
      [] d = "SA" -> "Saturday"
      [] OTHER -> d

\* date.toISOString().split("T")[0]; the days of this model are days of December 2024
toISODate(date) ==
    "2024-12-" \o (IF date.day < 10 THEN "0" ELSE "") \o ToString(date.day)

\* the end of formatRecurrenceHumanReadable with two independent ifs
countOrUntilBoth(rrule) ==
    (IF TruthyNum(rrule.count) THEN <<"(" \o ToString(rrule.count[1]) \o " times)">> ELSE <<>>)
    \o (IF rrule.until # <<>> THEN <<"until " \o toISODate(toJSDate(rrule.until[1]))>> ELSE <<>>)

\* "Count or until": the parts formatRecurrenceHumanReadable pushes last
countOrUntil(rrule) ==
    IF TruthyNum(rrule.count) THEN <<"(" \o ToString(rrule.count[1]) \o " times)">>
    ELSE IF rrule.until # <<>> THEN <<"until " \o toISODate(toJSDate(rrule.until[1]))>>
    ELSE <<>>

\* rrule is the ICAL.Recur of the RRULE property
formatRecurrenceHumanReadable(rrule) ==
    LET freq == toLowerCase(rrule.freq)
        interval == rrule.interval
        byDay == rrule.byday
        parts == (IF interval = 1 THEN <<freq>>
                  ELSE <<"every " \o ToString(interval) \o " " \o replaceLy(freq) \o "s">>)
                 \o (IF byDay # <<>> /\ Len(byDay[1]) > 0
                     THEN <<"on " \o join([i \in 1..Len(byDay[1]) |-> dayNames(byDay[1][i])], ", ")>>
                     ELSE <<>>)
                 \o countOrUntil(rrule)
    IN  join(parts, " ")

\* parseInterval without the test for an interval above 1
parseIntervalAlways(rruleValue) ==
    IF rruleValue.interval # 0 THEN Some(rruleValue.interval) ELSE None

\* recurrence.interval as parseICalEvent sets it from the ICAL.Recur
parseInterval(rruleValue) ==
    IF rruleValue.interval # 0 /\ rruleValue.interval > 1 THEN Some(rruleValue.interval) ELSE None

\* the RecurrenceInfo parseICalEvent builds from the RRULE property
parseRecurrence(d) ==
    IF d.rrule = <<>> THEN None
    ELSE LET rruleValue == parseRecur(d.rrule[1])
         IN  IF rruleValue.freq = "" THEN None
             ELSE Some([frequency |-> rruleValue.freq,
                        humanReadable |-> formatRecurrenceHumanReadable(rruleValue),
                        interval |-> parseInterval(rruleValue),
                        count |-> IF TruthyNum(rruleValue.count) THEN rruleValue.count ELSE None,
                        until |-> IF rruleValue.until # <<>>
                                  THEN Some(toJSDate(rruleValue.until[1])) ELSE None,
                        byDay |-> IF rruleValue.byday # <<>> /\ Len(rruleValue.byday[1]) > 0
                                  THEN rruleValue.byday ELSE None])

\* the Attendee parseICalEvent builds from one ATTENDEE property
parseAttendee(prop) ==
    [email |-> extractEmail(prop.value),
     name |-> IF TruthyStr(prop.cn) THEN prop.cn ELSE None,
     status |-> IF prop.partstat # "" THEN Some(toUpperCase(prop.partstat)) ELSE None,
     \* declared by the Attendee interface, never assigned by parseICalEvent
     rsvp |-> None,
     role |-> None]

\* parseICalEvent: <<>> for undefined, else <<CalendarEvent>>.  Every document of this
\* model prints with BEGIN:VCALENDAR and BEGIN:VEVENT.
parseICalEvent(d, url) ==
    IF d.uid = <<>> \/ d.uid[1] = "" THEN None
    ELSE IF d.dtstart = <<>> THEN None
    ELSE Some(
        [uid |-> d.uid[1],
         url |-> url,
         summary |-> IF d.summary = <<>> THEN "" ELSE d.summary[1],
         start |-> toJSDate(d.dtstart[1]),
         end |-> IF d.dtend = <<>> THEN None ELSE Some(toJSDate(d.dtend[1])),
         location |-> IF d.location = <<>> THEN None ELSE Some(d.location[1]),
         description |-> IF d.description = <<>> THEN None ELSE Some(d.description[1]),
         allDay |-> d.dtstart[1].isDate,
         status |-> IF TruthyStr(d.status) THEN Some(toUpperCase(d.status[1])) ELSE None,
         organizer |-> IF d.organizer = <<>> THEN None
                       ELSE Some([email |-> extractEmail(d.organizer[1].value),
                                  name |-> IF TruthyStr(d.organizer[1].cn)
                                           THEN d.organizer[1].cn ELSE None]),
         attendees |-> IF Len(d.attendee) > 0 THEN Some([i \in 1..Len(d.attendee) |-> parseAttendee(d.attendee[i])]) ELSE None,
         recurrence |-> parseRecurrence(d),
         \* declared by the CalendarEvent interface, never assigned by parseICalEvent
         categories |-> None,
         priority |-> None,
         transparency |-> None,
         eventUrl |-> None,
         reminders |-> None])

----------------------------------------------------------------------------
(* iCal update: the blocks of updateICalString, in source order.  Each takes *)
(* the VEVENT d as the blocks before it left it and the UpdateEventParams u. *)

\* updateSummary that also rewrites the description of the display alarms
updateSummarySyncAlarms(d, u) ==
    IF u.summary # <<>>
    THEN [d EXCEPT !.summary = updatePropertyWithValue(@, u.summary[1]),
                   !.valarm = [i \in 1..Len(@) |->
                                  IF @[i].description # <<>>
                                  THEN [@[i] EXCEPT !.description = u.summary] ELSE @[i]]]
    ELSE d

updateSummary(d, u) ==
    IF u.summary # <<>>
    THEN [d EXCEPT !.summary = updatePropertyWithValue(@, u.summary[1])]
    ELSE d

updateStart(d, u) ==
    IF u.start # <<>>
    THEN [d EXCEPT !.dtstart = updatePropertyWithValue(@,
              stringifyTime([fromJSDate(u.start[1]) EXCEPT !.isDate = TruthyBool(u.allDay)]))]
    ELSE IF u.allDay # <<>> /\ d.dtstart # <<>>
    THEN [d EXCEPT !.dtstart[1] = stringifyTime([@ EXCEPT !.isDate = u.allDay[1]])]
    ELSE d

updateEnd(d, u) ==
    IF u.end # <<>>
    THEN [d EXCEPT !.dtend = updatePropertyWithValue(@,
              stringifyTime([fromJSDate(u.end[1]) EXCEPT !.isDate = TruthyBool(u.allDay)]))]
    ELSE d

\* updateLocation testing the truthiness of updates.location
updateLocationTruthy(d, u) ==
    IF ~TruthyStr(u.location) THEN d
    ELSE [d EXCEPT !.location = updatePropertyWithValue(@, u.location[1])]

updateLocation(d, u) ==
    IF u.location = <<>> THEN d
    ELSE IF u.location[1] = "" THEN [d EXCEPT !.location = removeProperty(@)]
    ELSE [d EXCEPT !.location = updatePropertyWithValue(@, u.location[1])]

updateDescription(d, u) ==
    IF u.description = <<>> THEN d
    ELSE IF u.description[1] = "" THEN [d EXCEPT !.description = removeProperty(@)]
    ELSE [d EXCEPT !.description = updatePropertyWithValue(@, u.description[1])]

updateStatus(d, u) ==
    IF u.status = <<>> THEN d
    ELSE IF u.status[1] = "" THEN [d EXCEPT !.status = removeProperty(@)]
    ELSE [d EXCEPT !.status = updatePropertyWithValue(@, toUpperCase(u.status[1]))]

updateUrl(d, u) ==
    IF u.url = <<>> THEN d
    ELSE IF u.url[1] = "" THEN [d EXCEPT !.url = removeProperty(@)]
    ELSE [d EXCEPT !.url = updatePropertyWithValue(@, u.url[1])]

updateCategories(d, u) ==
    IF u.categories = <<>> THEN d
    ELSE LET removed == removeProperty(d.categories)
         IN  IF Len(u.categories[1]) > 0
             THEN [d EXCEPT !.categories =
                       updatePropertyWithValue(removed, <<join(u.categories[1], ",")>>)]
             ELSE [d EXCEPT !.categories = removed]

\* updatePriority removing PRIORITY when the number is out of range
updatePriorityRemoveInvalid(d, u) ==
    IF u.priority = <<>> THEN d
    ELSE IF u.priority[1] = <<>> THEN [d EXCEPT !.priority = removeProperty(@)]
    ELSE IF u.priority[1][1] >= 1 /\ u.priority[1][1] <= 9
    THEN [d EXCEPT !.priority = updatePropertyWithValue(@, u.priority[1][1])]
    ELSE [d EXCEPT !.priority = removeProperty(@)]

\* updatePriority without the branch for null
updatePriorityNoNull(d, u) ==
    IF u.priority = <<>> \/ u.priority[1] = <<>> THEN d
    ELSE IF u.priority[1][1] >= 1 /\ u.priority[1][1] <= 9
    THEN [d EXCEPT !.priority = updatePropertyWithValue(@, u.priority[1][1])]
    ELSE d

\* u.priority: <<>> undefined, << <<>> >> null, << <<n>> >> the number n
updatePriority(d, u) ==
    IF u.priority = <<>> THEN d
    ELSE IF u.priority[1] = <<>> THEN [d EXCEPT !.priority = removeProperty(@)]
    ELSE IF u.priority[1][1] >= 1 /\ u.priority[1][1] <= 9
    THEN [d EXCEPT !.priority = updatePropertyWithValue(@, u.priority[1][1])]
    ELSE d

updateTransparency(d, u) ==
    IF u.transparency = <<>> THEN d
    ELSE IF u.transparency[1] = "" THEN [d EXCEPT !.transp = removeProperty(@)]
    ELSE [d EXCEPT !.transp = updatePropertyWithValue(@, toUpperCase(u.transparency[1]))]

updateOrganizer(d, u) ==
    IF u.organizer = <<>> THEN d
    ELSE [d EXCEPT !.organizer = addProperty(removeProperty(@), organizerProp(u.organizer[1]))]

updateAttendees(d, u) ==
    IF u.attendees = <<>> THEN d
    ELSE [d EXCEPT !.attendee = removeAllProperties(@) \o [i \in 1..Len(u.attendees[1]) |-> attendeeProp(u.attendees[1][i])]]

updateReminders(d, u) ==
    IF u.reminders = <<>> THEN d
    ELSE LET summary == IF d.summary = <<>> THEN "Event" ELSE d.summary[1]
         IN  [d EXCEPT !.valarm =
                  [i \in 1..Len(u.reminders[1]) |-> valarmComp(u.reminders[1][i], summary)]]

\* updateDtstamp that stamps only a document without DTSTAMP
updateDtstampIfMissing(d, timestamp) ==
    IF d.dtstamp = <<>> THEN [d EXCEPT !.dtstamp = <<timestamp>>] ELSE d

\* updateDtstamp that stamps a new uid as createICalString does
updateDtstampAndUid(d, timestamp) ==
    [d EXCEPT !.dtstamp = updatePropertyWithValue(@, timestamp),
              !.uid = updatePropertyWithValue(@, generateEventUid(timestamp, "00000000"))]

updateDtstamp(d, timestamp) ==
    [d EXCEPT !.dtstamp = updatePropertyWithValue(@, timestamp)]

updateICalString(d, u, timestamp) ==
    LET d1 == updateSummary(d, u)
        d2 == updateStart(d1, u)
        d3 == updateEnd(d2, u)
        d4 == updateLocation(d3, u)
        d5 == updateDescription(d4, u)
        d6 == updateStatus(d5, u)
        d7 == updateUrl(d6, u)
        d8 == updateCategories(d7, u)
        d9 == updatePriority(d8, u)
        d10 == updateTransparency(d9, u)
        d11 == updateOrganizer(d10, u)
        d12 == updateAttendees(d11, u)
        d13 == updateReminders(d12, u)
    IN  updateDtstamp(d13, timestamp)

----------------------------------------------------------------------------
(* Inputs *)

\* JavaScript Dates: a calendar day and the seconds into it
Date1 == [day |-> 4, time |-> 36000]
Date2 == [day |-> 4, time |-> 39600]
Date3 == [day |-> 25, time |-> 0]
Date4 == [day |-> 26, time |-> 32400]

\* the random part of a new uid
Randoms == {"k3x9q2ab", "p0m4z7cd"}

\* the url parseICalEvent is handed
EventUrl == "/calendars/work/event.ics"

Alice == [email |-> "alice@example.com", name |-> Some("Alice")]
Bob == [email |-> "bob@example.com", name |-> Some("Bob"), rsvp |-> None, role |-> None]
Carol == [email |-> "carol@example.com", name |-> None, rsvp |-> Some(FALSE), role |-> Some("optional")]

NoReminder == [minutes |-> None, hours |-> None, days |-> None, action |-> None]
Offsets == {None} \cup {Some(n) : n \in 0..MaxOffset}
Reminders ==
    [minutes : Offsets, hours : Offsets, days : Offsets,
     action : {None, Some("display"), Some("email")}]

Recurrences ==
    [frequency : {"daily", "weekly", "monthly", "yearly"},
     interval : {None} \cup {Some(n) : n \in 1..MaxInterval},
     count : {None} \cup {Some(n) : n \in 1..MaxCount},
     until : {None, Some(Date4)},
     byDay : {None, Some(<<>>), Some(<<"MO", "WE">>)}]

\* CreateEventParams with only the required fields
MinimalParams ==
    [summary |-> "Standup", start |-> Date1, end |-> None, allDay |-> None,
     location |-> None, description |-> None, recurrence |-> None,
     attendees |-> None, organizer |-> None, status |-> None, url |-> None,
     categories |-> None, priority |-> None, transparency |-> None, reminders |-> None]

\* CreateEventParams with every field
FullParams ==
    [summary |-> "Planning", start |-> Date1, end |-> Some(Date2), allDay |-> Some(FALSE),
     location |-> Some("Room A"), description |-> Some("Agenda"),
     recurrence |-> Some([frequency |-> "weekly", interval |-> Some(2), count |-> None,
                          until |-> None, byDay |-> Some(<<"MO", "WE">>)]),
     attendees |-> Some(<<Bob, Carol>>), organizer |-> Some(Alice),
     status |-> Some("tentative"), url |-> Some("https://meet.example.com/abc"),
     categories |-> Some(<<"Work", "Team">>), priority |-> Some(1),
     transparency |-> Some("opaque"),
     reminders |-> Some(<<[NoReminder EXCEPT !.minutes = Some(1)]>>)]

\* an all-day event
AllDayParams ==
    [MinimalParams EXCEPT !.summary = "Holiday", !.start = Date3, !.end = Some(Date4),
                          !.allDay = Some(TRUE), !.location = Some("Home")]

\* the events the update chains start from
BaseParams == {MinimalParams, FullParams, AllDayParams}

\* the events the round trip is tried on: one optional field at a time, every
\* reminder, every recurrence
CreateParams ==
    BaseParams
    \cup {[MinimalParams EXCEPT !.allDay = Some(b)] : b \in BOOLEAN}
    \cup {[MinimalParams EXCEPT !.end = Some(Date2)]}
    \cup {[MinimalParams EXCEPT !.location = Some(t)] : t \in {"", "Room A"}}
    \cup {[MinimalParams EXCEPT !.description = Some(t)] : t \in {"", "Agenda"}}
    \cup {[MinimalParams EXCEPT !.status = Some(t)] : t \in {"confirmed", "tentative", "cancelled"}}
    \cup {[MinimalParams EXCEPT !.url = Some("https://meet.example.com/abc")]}
    \cup {[MinimalParams EXCEPT !.categories = Some(c)] : c \in {<<>>, <<"Work">>, <<"Work", "Team">>}}
    \cup {[MinimalParams EXCEPT !.priority = Some(n)] : n \in {0, 1, 9, 10}}
    \cup {[MinimalParams EXCEPT !.transparency = Some(t)] : t \in {"opaque", "transparent"}}
    \cup {[MinimalParams EXCEPT !.organizer = Some(o)] : o \in {Alice, [Alice EXCEPT !.name = None]}}
    \cup {[MinimalParams EXCEPT !.attendees = Some(a)] : a \in {<<>>, <<Bob>>, <<Bob, Carol>>}}
    \cup {[MinimalParams EXCEPT !.reminders = Some(<<r>>)] : r \in Reminders}
    \cup {[MinimalParams EXCEPT !.reminders = Some(r)] : r \in {<<>>, <<NoReminder, NoReminder>>}}
    \cup {[MinimalParams EXCEPT !.recurrence = Some(r)] : r \in Recurrences}

\* a document another CalDAV client stored: no METHOD, two CATEGORIES properties,
\* an attendee who has answered
ForeignDoc ==
    [method |-> <<>>,
     uid |-> <<"7f3a-external@example.org">>,
     dtstamp |-> <<0>>,
     summary |-> <<"Offsite">>,
     dtstart |-> <<[isDate |-> FALSE, day |-> 4, time |-> 36000]>>,
     dtend |-> <<[isDate |-> FALSE, day |-> 4, time |-> 39600]>>,
     location |-> <<"Lisbon">>,
     description |-> <<>>,
     status |-> <<"CONFIRMED">>,
     url |-> <<>>,
     categories |-> << <<"Work">>, <<"Travel">> >>,
     priority |-> <<5>>,
     transp |-> <<>>,
     organizer |-> <<>>,
     attendee |-> <<[value |-> "mailto:dave@example.org", cn |-> None, rsvp |-> "FALSE",
                     partstat |-> "ACCEPTED", role |-> None]>>,
     valarm |-> <<[action |-> "AUDIO", trigger |-> "-PT5M", description |-> None]>>,
     rrule |-> <<>>]

ForeignDocs == {ForeignDoc}

\* UpdateEventParams with nothing set
EmptyPatch ==
    [summary |-> None, start |-> None, end |-> None, allDay |-> None,
     location |-> None, description |-> None, attendees |-> None, organizer |-> None,
     status |-> None, url |-> None, categories |-> None, priority |-> None,
     transparency |-> None, reminders |-> None]

PatchFields == DOMAIN EmptyPatch

\* the patches that set exactly one field
SingleFieldPatches ==
    {[EmptyPatch EXCEPT !.summary = Some("Review")]}
    \cup {[EmptyPatch EXCEPT !.start = Some(Date3)]}
    \cup {[EmptyPatch EXCEPT !.end = Some(Date4)]}
    \cup {[EmptyPatch EXCEPT !.allDay = Some(b)] : b \in BOOLEAN}
    \cup {[EmptyPatch EXCEPT !.location = Some(t)] : t \in {"", "Room B"}}
    \cup {[EmptyPatch EXCEPT !.description = Some(t)] : t \in {"", "Minutes"}}
    \cup {[EmptyPatch EXCEPT !.status = Some(t)] : t \in {"", "cancelled"}}
    \cup {[EmptyPatch EXCEPT !.url = Some(t)] : t \in {"", "https://meet.example.com/xyz"}}
    \cup {[EmptyPatch EXCEPT !.categories = Some(c)] : c \in {<<>>, <<"Personal", "Family">>}}
    \cup {[EmptyPatch EXCEPT !.priority = Some(n)] : n \in {None, Some(0), Some(1), Some(9), Some(10)}}
    \cup {[EmptyPatch EXCEPT !.transparency = Some(t)] : t \in {"", "transparent"}}
    \cup {[EmptyPatch EXCEPT !.organizer = Some([Alice EXCEPT !.name = None])]}
    \cup {[EmptyPatch EXCEPT !.attendees = Some(a)] : a \in {<<>>, <<Carol>>}}
    \cup {[EmptyPatch EXCEPT !.reminders = Some(r)] :
              r \in {<<>>, <<[NoReminder EXCEPT !.hours = Some(2), !.action = Some("email")]>>}}

\* the patches tried: none, one field, and the fields whose blocks read one another
\* (allDay with start and end, summary with reminders)
Patches ==
    {EmptyPatch}
    \cup SingleFieldPatches
    \cup {[EmptyPatch EXCEPT !.start = Some(Date3), !.allDay = Some(b)] : b \in BOOLEAN}
    \cup {[EmptyPatch EXCEPT !.end = Some(Date4), !.allDay = Some(b)] : b \in BOOLEAN}
    \cup {[EmptyPatch EXCEPT !.start = Some(Date3), !.end = Some(Date4), !.allDay = Some(TRUE)]}
    \cup {[EmptyPatch EXCEPT !.summary = Some("Review"),
                             !.reminders = Some(<<[NoReminder EXCEPT !.days = Some(1)]>>)]}
    \cup {[EmptyPatch EXCEPT !.location = Some(""), !.description = Some("Minutes"),
                             !.status = Some("confirmed"), !.priority = Some(None)]}

----------------------------------------------------------------------------
(* Operations *)

Init ==
    /\ doc = <<>>
    /\ uid = ""
    /\ params = <<>>
    /\ patch = <<>>
    /\ parsed = <<>>
    /\ now = 1
    /\ nUpdates = 0
    /\ text = <<>>
    /\ result = <<>>
    /\ field = <<>>
    /\ calls = [c \in 1..NumCallers |-> <<>>]
    /\ server = [exists |-> FALSE, data |-> <<>>, etag |-> 0]
    /\ ops = [o \in 1..NumOps |->
                [pc |-> "idle", args |-> <<>>, existingEvent |-> <<>>,
                 request |-> <<>>, response |-> <<>>]]
    /\ emails = [id \in {"e1", "e2", "e3"} |->
                   CASE id = "e1" -> <<[keywords |-> {"$seen", "$flagged"},
                                        mailboxIds |-> {"a1"}]>>
                     [] id = "e2" -> <<[keywords |-> {"$flagged"}, mailboxIds |-> {"a1"}]>>
                     [] OTHER -> <<>>]
    /\ submissions = {}
    /\ send = [pc |-> "idle", accountId |-> "", args |-> <<>>, request |-> <<>>,
               response |-> <<>>]
    /\ mailCall = <<>>
    /\ mailboxCache = <<>>
    /\ mailboxCacheAccountId = <<>>
    /\ lookups = [c \in 1..NumLookups |-> <<>>]
    /\ calendars = << [url |-> "/cal/personal/", displayName |-> "Personal"] >>
    /\ calendarsCache = <<>>
    /\ resolving = [pc |-> "idle", nameOrUrl |-> "", answer |-> <<>>]

\* create_event: createICalString builds the document that is stored
CreateEvent(p, random) ==
    /\ doc = <<>>
    /\ doc' = <<createICalString(p, now, random)>>
    /\ uid' = generateEventUid(now, random)
    /\ params' = <<p>>
    /\ now' = now + 1
    /\ UNCHANGED <<serviceVars, patch, parsed, nUpdates, textVars, extraVars>>

\* update_event, first half: the stored document comes back from the server
FetchEvent(d) ==
    /\ doc = <<>>
    /\ doc' = <<d>>
    /\ uid' = d.uid[1]
    /\ now' = now + 1
    /\ UNCHANGED <<serviceVars, params, patch, parsed, nUpdates, textVars, extraVars>>

\* update_event, second half: updateICalString rewrites the stored document
UpdateEvent(u) ==
    /\ doc # <<>>
    /\ nUpdates < MaxUpdates
    /\ doc' = <<updateICalString(doc[1], u, now)>>
    /\ patch' = <<u>>
    /\ parsed' = <<>>
    /\ now' = now + 1
    /\ nUpdates' = nUpdates + 1
    /\ UNCHANGED <<serviceVars, uid, params, textVars, extraVars>>

\* events: parseICalEvent reads the stored document
ParseEvent ==
    /\ doc # <<>>
    /\ parsed = <<>>
    /\ parsed' = <<parseICalEvent(doc[1], EventUrl)>>
    /\ UNCHANGED <<serviceVars, doc, uid, params, patch, now, nUpdates, textVars, extraVars>>

Create == \E p \in BaseParams, random \in Randoms : CreateEvent(p, random)
Fetch == \E d \in ForeignDocs : FetchEvent(d)
Update == \E u \in Patches : UpdateEvent(u)

\* a stored event under a chain of updates
Next == Create \/ Fetch \/ Update \/ ParseEvent
Spec == Init /\ [][Next]_vars

CreateAny == \E p \in CreateParams, random \in Randoms : CreateEvent(p, random)

\* one event created and read back
CodecNext == CreateAny \/ ParseEvent
CodecSpec == Init /\ [][CodecNext]_vars

----------------------------------------------------------------------------
(* Claims about updateICalString *)

\* a step that applied a patch
UpdateStep == nUpdates' = nUpdates + 1

\* the fields a patch sets
FieldsSet(u) == {f \in PatchFields : u[f] # <<>>}

\* the document properties a patch field is written to; allDay is carried by the
\* value type of DTSTART and DTEND
Touched(f) ==
    CASE f = "start" -> {"dtstart"}
      [] f = "end" -> {"dtend"}
      [] f = "allDay" -> {"dtstart", "dtend"}
      [] f = "transparency" -> {"transp"}
      [] f = "attendees" -> {"attendee"}
      [] f = "reminders" -> {"valarm"}
      [] OTHER -> {f}

DocFields == DOMAIN ForeignDoc

\* C1: along every chain of patches applied to a document, the uid of each
\* resulting document is the uid of the document the chain started from.
C1_UidImmutable ==
    doc # <<>> => doc[1].uid = <<uid>>

C1_Witness ==
    /\ nUpdates >= 2
    /\ doc[1].uid = <<uid>>
    /\ doc[1].dtstamp # <<1>>

\* C2: a patch that sets only one field F leaves the value of every property other
\* than the one(s) F is written to as it was, DTSTAMP apart.
C2_SingleFieldFrame ==
    [][UpdateStep /\ Cardinality(FieldsSet(patch'[1])) = 1
         => \A f \in FieldsSet(patch'[1]) :
              \A g \in DocFields \ (Touched(f) \cup {"dtstamp"}) :
                 doc'[1][g] = doc[1][g]]_vars

C2_Witness ==
    /\ nUpdates >= 1
    /\ FieldsSet(patch[1]) = {"summary"}
    /\ doc[1].summary = <<"Review">>
    /\ doc[1].location = <<"Room A">>
    /\ doc[1].valarm # <<>>
    /\ doc[1].attendee # <<>>

\* the form in which a patch value of field f is written to the document
Written(f, v) == IF f \in {"status", "transparency"} THEN toUpperCase(v) ELSE v

\* the property a patch field is written to
Prop(f) == IF f = "transparency" THEN "transp" ELSE f

\* C3: for location, description, status, url and transparency a patch has three
\* outcomes: the empty string removes the field, a non-empty string makes the field
\* hold that value (STATUS and TRANSP in the upper case the codec writes), and a
\* patch without the field leaves it as it was.
C3_ThreeOutcomes ==
    [][UpdateStep =>
         \A f \in {"location", "description", "status", "url", "transparency"} :
            LET v == patch'[1][f] IN
            /\ v = <<>> => doc'[1][Prop(f)] = doc[1][Prop(f)]
            /\ v = <<"">> => doc'[1][Prop(f)] = <<>>
            /\ (v # <<>> /\ v # <<"">>) => doc'[1][Prop(f)] = <<Written(f, v[1])>>]_vars

C3_Witness ==
    /\ nUpdates >= 1
    /\ patch[1].location = <<"">>
    /\ patch[1].status = <<"confirmed">>
    /\ patch[1].url = <<>>
    /\ doc[1].location = <<>>
    /\ doc[1].status = <<"CONFIRMED">>
    /\ doc[1].url = <<"https://meet.example.com/abc">>

\* C4: for categories, attendees and reminders a patch with an empty array leaves no
\* entry of that kind, one with a non-empty array leaves exactly the entries made
\* from that array, and one without the field leaves the entries as they were.
C4_ArraysReplace ==
    [][UpdateStep =>
         LET u == patch'[1]
             summary == IF doc'[1].summary = <<>> THEN "Event" ELSE doc'[1].summary[1]
         IN
         /\ u.categories = <<>> => doc'[1].categories = doc[1].categories
         /\ u.categories = << <<>> >> => doc'[1].categories = <<>>
         /\ (u.categories # <<>> /\ u.categories # << <<>> >>)
               => doc'[1].categories = << <<join(u.categories[1], ",")>> >>
         /\ u.attendees = <<>> => doc'[1].attendee = doc[1].attendee
         /\ u.attendees # <<>> => doc'[1].attendee = [i \in 1..Len(u.attendees[1]) |-> attendeeProp(u.attendees[1][i])]
         /\ u.reminders = <<>> => doc'[1].valarm = doc[1].valarm
         /\ u.reminders # <<>> =>
               doc'[1].valarm = [i \in 1..Len(u.reminders[1]) |->
                                    valarmComp(u.reminders[1][i], summary)]]_vars

\* C5: for priority a patch with null removes PRIORITY, one with an integer from 1
\* to 9 makes PRIORITY that integer, and one without priority leaves PRIORITY as
\* it was.
C5_PriorityOutcomes ==
    [][UpdateStep =>
         LET v == patch'[1].priority IN
         /\ v = <<>> => doc'[1].priority = doc[1].priority
         /\ v = << <<>> >> => doc'[1].priority = <<>>
         /\ (v # <<>> /\ v # << <<>> >> /\ v[1][1] >= 1 /\ v[1][1] <= 9)
               => doc'[1].priority = <<v[1][1]>>]_vars

C5_Witness ==
    /\ nUpdates >= 2
    /\ patch[1].priority = << <<>> >>
    /\ doc[1].priority = <<>>
    /\ doc[1].summary = <<"Planning">>

----------------------------------------------------------------------------
(* Claims about createICalString and parseICalEvent *)

\* the stored document is the one createICalString returned for params
Created == params # <<>> /\ doc # <<>> /\ nUpdates = 0

\* an optional string with "" read as not given
NonEmpty(o) == IF o = <<"">> THEN None ELSE o

\* an optional array with the empty array read as not given
NonEmptySeq(o) == IF o = << <<>> >> THEN None ELSE o

\* the Date a CreateEventParams date comes back as: an all-day event keeps the day
AsWritten(date, allDay) == IF allDay THEN [date EXCEPT !.time = 0] ELSE date

\* C6: deserialize(serialize(x)) succeeds and gives back every field of x the format
\* can hold, with the uid serialize returned; interval = 1 and count together with
\* until are the only exceptions.
C6_RoundTrip ==
    (Created /\ parsed # <<>>
        /\ (params[1].priority = <<>> \/ params[1].priority[1] \in 1..9)) =>
    /\ parsed[1] # <<>>
    /\ LET x == params[1]
           e == parsed[1][1]
           allDay == TruthyBool(x.allDay)
       IN
       /\ e.uid = uid
       /\ e.summary = x.summary
       /\ e.allDay = allDay
       /\ e.start = AsWritten(x.start, allDay)
       /\ e.end = IF x.end = <<>> THEN None ELSE Some(AsWritten(x.end[1], allDay))
       /\ e.location = NonEmpty(x.location)
       /\ e.description = NonEmpty(x.description)
       /\ e.status = IF x.status = <<>> THEN None ELSE Some(toUpperCase(x.status[1]))
       /\ e.eventUrl = NonEmpty(x.url)
       /\ e.categories = NonEmptySeq(x.categories)
       /\ e.priority = x.priority
       /\ e.transparency =
             IF x.transparency = <<>> THEN None ELSE Some(toUpperCase(x.transparency[1]))
       /\ e.organizer = x.organizer
       /\ IF NonEmptySeq(x.attendees) = <<>> THEN e.attendees = None
          ELSE /\ e.attendees # <<>>
               /\ Len(e.attendees[1]) = Len(x.attendees[1])
               /\ \A i \in 1..Len(x.attendees[1]) :
                     /\ e.attendees[1][i].email = x.attendees[1][i].email
                     /\ e.attendees[1][i].name = x.attendees[1][i].name
       /\ IF NonEmptySeq(x.reminders) = <<>> THEN e.reminders = None
          ELSE /\ e.reminders # <<>>
               /\ Len(e.reminders[1]) = Len(x.reminders[1])
       /\ IF x.recurrence = <<>> THEN e.recurrence = None
          ELSE /\ e.recurrence # <<>>
               /\ LET r == x.recurrence[1]
                      g == e.recurrence[1]
                  IN
                  /\ g.frequency = toUpperCase(r.frequency)
                  /\ r.interval # <<1>> => g.interval = r.interval
                  /\ ~(r.count # <<>> /\ r.until # <<>>) =>
                        (g.count = r.count /\ g.until = r.until)
                  /\ g.byDay = NonEmptySeq(r.byDay)

\* the trigger when minutes, then hours, then days are tried, the first one present
\* deciding (an offset of 0 counts as not present, as it does in the code)
ClaimedTrigger(r) ==
    IF r.minutes # <<>> /\ r.minutes[1] > 0 THEN "-PT" \o ToString(r.minutes[1]) \o "M"
    ELSE IF r.hours # <<>> /\ r.hours[1] > 0 THEN "-PT" \o ToString(r.hours[1]) \o "H"
    ELSE IF r.days # <<>> /\ r.days[1] > 0 THEN "-P" \o ToString(r.days[1]) \o "D"
    ELSE "-PT15M"

\* the reminders of the created event, with the alarms made from them
CreatedAlarms ==
    IF Created /\ params[1].reminders # <<>>
    THEN {<<params[1].reminders[1][i], doc[1].valarm[i]>> : i \in 1..Len(params[1].reminders[1])}
    ELSE {}

\* C7 as stated: minutes, then hours, then days are tried in that order and the
\* first present decides the trigger; none present gives -PT15M.
C7_MinutesHoursDays ==
    Created /\ params[1].reminders # <<>> =>
       /\ Len(doc[1].valarm) = Len(params[1].reminders[1])
       /\ \A ra \in CreatedAlarms : ra[2].trigger = ClaimedTrigger(ra[1])

\* C7 as amended: days, then hours, then minutes are tried in that order and the
\* first one present and not zero decides the trigger (-P<d>D, -PT<h>H, -PT<m>M);
\* when none is present and not zero the trigger is -PT15M.
C7_DaysHoursMinutes ==
    Created /\ params[1].reminders # <<>> =>
       /\ Len(doc[1].valarm) = Len(params[1].reminders[1])
       /\ \A ra \in CreatedAlarms :
             LET r == ra[1]
                 t == ra[2].trigger
                 Set(o) == o # <<>> /\ o[1] > 0
             IN
             /\ Set(r.days) => t = "-P" \o ToString(r.days[1]) \o "D"
             /\ ~Set(r.days) /\ Set(r.hours) => t = "-PT" \o ToString(r.hours[1]) \o "H"
             /\ ~Set(r.days) /\ ~Set(r.hours) /\ Set(r.minutes)
                   => t = "-PT" \o ToString(r.minutes[1]) \o "M"
             /\ ~Set(r.days) /\ ~Set(r.hours) /\ ~Set(r.minutes) => t = "-PT15M"

C7_Witness ==
    /\ Created
    /\ params[1].reminders = <<<<[minutes |-> <<2>>, hours |-> <<0>>, days |-> <<1>>,
                                  action |-> <<>>]>>>>
    /\ doc[1].valarm[1].trigger = "-P1D"

\* C8: the envelope carries METHOD:REQUEST exactly when the event has attendees,
\* and no METHOD otherwise.
C8_MethodOnlyWithAttendees ==
    Created =>
       IF NonEmptySeq(params[1].attendees) # <<>>
       THEN doc[1].method = <<"REQUEST">>
       ELSE doc[1].method = <<>>

\* C9: the written rule never holds both COUNT and UNTIL; when count and until are
\* both supplied only UNTIL is written.
C9_NeverCountAndUntil ==
    Created /\ doc[1].rrule # <<>> =>
       /\ ~(doc[1].rrule[1].count # <<>> /\ doc[1].rrule[1].until # <<>>)
       /\ (params[1].recurrence[1].count # <<>> /\ params[1].recurrence[1].until # <<>>)
             => (doc[1].rrule[1].until # <<>> /\ doc[1].rrule[1].count = <<>>)

\* C10: INTERVAL is written only when interval is supplied and above 1; read back,
\* interval = 1 and interval not set both give no interval, and an interval above 1
\* comes back as it was.
C10_IntervalRoundTrip ==
    Created /\ params[1].recurrence # <<>> =>
       LET r == params[1].recurrence[1]
           above1 == r.interval # <<>> /\ r.interval[1] > 1
       IN
       /\ doc[1].rrule[1].interval = IF above1 THEN r.interval ELSE None
       /\ parsed # <<>> =>
             /\ parsed[1] # <<>>
             /\ parsed[1][1].recurrence # <<>>
             /\ parsed[1][1].recurrence[1].interval = IF above1 THEN r.interval ELSE None

C10_Witness ==
    /\ Created
    /\ params[1].recurrence # <<>>
    /\ params[1].recurrence[1].interval = <<1>>
    /\ doc[1].rrule[1].interval = <<>>
    /\ parsed # <<>>
    /\ parsed[1][1].recurrence[1].interval = <<>>

----------------------------------------------------------------------------
(* Claims about allDay *)

\* C11: when a patch sets allDay and supplies neither start nor end, the DTSTART and
\* the DTEND the document already has both come out with the granularity of the new
\* allDay value (date-only when true, date-time when false), on the same day, and a
\* date-time token keeps its clock value.
C11_AllDayFlipsStartAndEnd ==
    [][UpdateStep /\ patch'[1].allDay # <<>> /\ patch'[1].start = <<>> /\ patch'[1].end = <<>>
         => \A f \in {"dtstart", "dtend"} :
               doc[1][f] # <<>> =>
                  /\ doc'[1][f] # <<>>
                  /\ doc'[1][f][1].isDate = patch'[1].allDay[1]
                  /\ doc'[1][f][1].day = doc[1][f][1].day
                  /\ ~patch'[1].allDay[1] => doc'[1][f][1].time = doc[1][f][1].time]_vars

----------------------------------------------------------------------------
(* The codec on raw calendar object data *)

\* how a call ends: it returns a value or it throws an error
Return(v) == [threw |-> FALSE, value |-> v]
Throw(e) == [threw |-> TRUE, value |-> e]

\* A calendar object's data as text: whether it contains "BEGIN:VCALENDAR" and
\* "BEGIN:VEVENT", whether ICAL.parse accepts it, the VEVENT sub-block of its root
\* component (<<>> when there is none) and whether the value of DTSTART decodes.
icalText(d) ==
    [hasVCalendar |-> TRUE, hasVEvent |-> TRUE, wellFormed |-> TRUE,
     vevent |-> <<d>>, startDecodes |-> TRUE]

\* "not valid ical"
NotICalText ==
    [hasVCalendar |-> FALSE, hasVEvent |-> FALSE, wellFormed |-> FALSE,
     vevent |-> <<>>, startDecodes |-> TRUE]

\* BEGIN:VCALENDAR / VERSION:2.0 / END:VCALENDAR
NoVEventText ==
    [hasVCalendar |-> TRUE, hasVEvent |-> FALSE, wellFormed |-> TRUE,
     vevent |-> <<>>, startDecodes |-> TRUE]

\* an envelope holding a VTODO whose DESCRIPTION quotes the text "BEGIN:VEVENT"
QuotedMarkerText ==
    [hasVCalendar |-> TRUE, hasVEvent |-> TRUE, wellFormed |-> TRUE,
     vevent |-> <<>>, startDecodes |-> TRUE]

\* BEGIN:VCALENDAR / BEGIN:VEVENT / UID:... cut off before END:VEVENT
TruncatedText ==
    [hasVCalendar |-> TRUE, hasVEvent |-> TRUE, wellFormed |-> FALSE,
     vevent |-> <<>>, startDecodes |-> TRUE]

\* a VEVENT block with no envelope around it: the root component is the VEVENT
BareVEventText ==
    [hasVCalendar |-> FALSE, hasVEvent |-> TRUE, wellFormed |-> TRUE,
     vevent |-> <<>>, startDecodes |-> TRUE]

\* the texts that do not open as an event block
BrokenTexts == {NotICalText, NoVEventText, QuotedMarkerText, TruncatedText, BareVEventText}

\* event blocks without a uid, with an empty UID line, without DTSTART, and with a
\* DTSTART whose value is no date ("DTSTART:garbage")
IncompleteTexts ==
    {icalText([ForeignDoc EXCEPT !.uid = <<>>]),
     icalText([ForeignDoc EXCEPT !.uid = <<"">>]),
     icalText([ForeignDoc EXCEPT !.dtstart = <<>>]),
     [icalText(ForeignDoc) EXCEPT !.startDecodes = FALSE]}

Texts == BrokenTexts \cup IncompleteTexts \cup {icalText(ForeignDoc)}

\* ICAL.parse, new ICAL.Component and getFirstSubcomponent("vevent"): ICAL.parse
\* throws on text it cannot read, a root component without a VEVENT gives null
getFirstSubcomponent(icalString) ==
    IF ~icalString.wellFormed THEN Throw("ParserError")
    ELSE Return(icalString.vevent)

\* the try block of parseICalEvent: reading event.startDate decodes the value of
\* DTSTART, which throws when the value is no date
parseICalEventTry(icalContent, url) ==
    LET vevent == getFirstSubcomponent(icalContent) IN
    IF vevent.threw THEN vevent
    ELSE IF vevent.value = <<>> THEN Return(None)
    ELSE LET d == vevent.value[1] IN
         IF d.uid # <<>> /\ d.uid[1] # "" /\ d.dtstart # <<>> /\ ~icalContent.startDecodes
         THEN Throw("invalid date-time value")
         ELSE Return(parseICalEvent(d, url))

\* parseICalEvent with the try block left bare
parseICalEventTextNoCatch(icalContent, url) ==
    IF ~icalContent.hasVCalendar \/ ~icalContent.hasVEvent THEN Return(None)
    ELSE parseICalEventTry(icalContent, url)

\* parseICalEvent on text: the test for the two markers, then the try block with
\* its catch
parseICalEventText(icalContent, url) ==
    IF ~icalContent.hasVCalendar \/ ~icalContent.hasVEvent THEN Return(None)
    ELSE LET tried == parseICalEventTry(icalContent, url)
         IN  IF tried.threw THEN Return(None) ELSE tried

\* updateICalString that hands the text back when it holds no VEVENT
updateICalStringTextLenient(icalString, updates, timestamp) ==
    LET vevent == getFirstSubcomponent(icalString) IN
    IF vevent.threw THEN vevent
    ELSE IF vevent.value = <<>> THEN Return(icalString)
    ELSE IF /\ updates.start = <<>> /\ updates.allDay # <<>>
            /\ vevent.value[1].dtstart # <<>> /\ ~icalString.startDecodes
    THEN Throw("invalid date-time value")
    ELSE Return([icalString EXCEPT
                    !.vevent = <<updateICalString(vevent.value[1], updates, timestamp)>>,
                    !.startDecodes = @ \/ updates.start # <<>>])

\* updateICalString on text: no catch anywhere; the allDay-only branch decodes the
\* value of DTSTART, a new start replaces it
updateICalStringText(icalString, updates, timestamp) ==
    LET vevent == getFirstSubcomponent(icalString) IN
    IF vevent.threw THEN vevent
    ELSE IF vevent.value = <<>> THEN Throw("No VEVENT found in iCal string")
    ELSE IF /\ updates.start = <<>> /\ updates.allDay # <<>>
            /\ vevent.value[1].dtstart # <<>> /\ ~icalString.startDecodes
    THEN Throw("invalid date-time value")
    ELSE Return([icalString EXCEPT
                    !.vevent = <<updateICalString(vevent.value[1], updates, timestamp)>>,
                    !.startDecodes = @ \/ updates.start # <<>>])

\* a server hands back the data of a calendar object
ReceiveText(t) ==
    /\ text = <<>>
    /\ text' = <<t>>
    /\ UNCHANGED <<serviceVars, doc, uid, params, patch, parsed, now, nUpdates, result, extraVars>>

\* fetchCalendarEvents: parseICalEvent reads the data
ParseText ==
    /\ text # <<>>
    /\ result = <<>>
    /\ result' = <<[call |-> "parseICalEvent",
                    outcome |-> parseICalEventText(text[1], EventUrl)]>>
    /\ UNCHANGED <<serviceVars, doc, uid, params, patch, parsed, now, nUpdates, text, extraVars>>

\* update_event: updateICalString patches the data
PatchText(u) ==
    /\ text # <<>>
    /\ result = <<>>
    /\ result' = <<[call |-> "updateICalString",
                    outcome |-> updateICalStringText(text[1], u, now)]>>
    /\ patch' = <<u>>
    /\ UNCHANGED <<serviceVars, doc, uid, params, parsed, now, nUpdates, text, extraVars>>

Receive == \E t \in Texts : ReceiveText(t)
Patch == \E u \in Patches : PatchText(u)

\* one calendar object of any content read or patched
TextNext == Receive \/ ParseText \/ Patch
TextSpec == Init /\ [][TextNext]_vars

----------------------------------------------------------------------------
(* Claims about errors *)

\* C12: parseICalEvent never throws, whatever the text; for a text without the
\* BEGIN:VCALENDAR or BEGIN:VEVENT marker, a text ICAL.parse rejects, an envelope
\* without a VEVENT, and an event block without a uid or without a DTSTART that
\* decodes, it returns undefined.
C12_ParseNeverThrows ==
    (result # <<>> /\ result[1].call = "parseICalEvent") =>
       LET t == text[1]
           r == result[1].outcome
       IN
       /\ ~r.threw
       /\ (t \in BrokenTexts \cup IncompleteTexts) => r.value = None
       /\ (t \notin BrokenTexts \cup IncompleteTexts) => r.value # None

C12_Witness ==
    /\ result # <<>>
    /\ result[1].call = "parseICalEvent"
    /\ text[1] = TruncatedText
    /\ result[1].outcome = Return(None)

\* C13: updateICalString on a text that ICAL.parse rejects, or whose root component
\* holds no VEVENT, throws an error and returns no document.
C13_PatchBrokenThrows ==
    (result # <<>> /\ result[1].call = "updateICalString" /\ text[1] \in BrokenTexts)
       => result[1].outcome.threw

C13_Witness ==
    /\ result # <<>>
    /\ result[1].call = "updateICalString"
    /\ text[1] = NoVEventText
    /\ result[1].outcome = Throw("No VEVENT found in iCal string")

----------------------------------------------------------------------------
(* Claims about priority *)

\* priorities as they can reach the codec: in range, and on either side of it
Priorities == {-1, 0, 1, 9, 10}

PriorityParams ==
    {MinimalParams} \cup {[MinimalParams EXCEPT !.priority = Some(n)] : n \in Priorities}

PriorityPatches ==
    {EmptyPatch, [EmptyPatch EXCEPT !.priority = Some(None)]}
    \cup {[EmptyPatch EXCEPT !.priority = Some(Some(n))] : n \in Priorities}

CreatePriority == \E p \in PriorityParams, random \in Randoms : CreateEvent(p, random)
UpdatePriority == \E u \in PriorityPatches : UpdateEvent(u)

\* an event created and patched with any priority
PriorityNext == CreatePriority \/ UpdatePriority
PrioritySpec == Init /\ [][PriorityNext]_vars

\* a step that created the document
CreateStep == doc = <<>> /\ params' # <<>>

\* C14: createICalString called with a priority below 1 or above 9 returns a
\* document without PRIORITY, and updateICalString called with such a priority
\* returns a document whose PRIORITY is the one the document had; both return a
\* document.
C14_OutOfRangePriorityDropped ==
    [][/\ (CreateStep /\ params'[1].priority # <<>>
             /\ (params'[1].priority[1] < 1 \/ params'[1].priority[1] > 9))
          => (doc' # <<>> /\ doc'[1].priority = <<>>)
       /\ (UpdateStep /\ patch'[1].priority # <<>> /\ patch'[1].priority[1] # <<>>
             /\ (patch'[1].priority[1][1] < 1 \/ patch'[1].priority[1][1] > 9))
          => (doc' # <<>> /\ doc'[1].priority = doc[1].priority)]_vars

C14_Witness ==
    /\ nUpdates = 2
    /\ params[1].priority = <<0>>
    /\ patch[1].priority = << <<10>> >>
    /\ doc[1].priority = <<9>>

----------------------------------------------------------------------------
(* Claims about DTSTAMP *)

\* C15: every document updateICalString returns carries as DTSTAMP the clock
\* reading of that call, whatever the patch sets, the empty patch included.
C15_DtstampRewritten ==
    [][UpdateStep => doc'[1].dtstamp = <<now>>]_vars

C15_Witness ==
    /\ nUpdates = 2
    /\ patch[1] = EmptyPatch
    /\ params # <<>>
    /\ doc[1].dtstamp = <<3>>
    /\ doc[1].summary = <<params[1].summary>>

----------------------------------------------------------------------------
(* Claims about the recurrence description *)

\* s ends with the string e
EndsWith(s, e) == Len(s) >= Len(e) /\ SubSeq(s, Len(s) - Len(e) + 1, Len(s)) = e

\* the string e occurs in s
Contains(s, e) == \E i \in 1..(Len(s) - Len(e) + 1) : SubSeq(s, i, i + Len(e) - 1) = e

\* the event read back carries a recurrence
ParsedRecurrence ==
    /\ parsed # <<>>
    /\ parsed[1] # <<>>
    /\ parsed[1][1].recurrence # <<>>

\* C16: the description of a rule ends with "(<count> times)" and has no "until"
\* phrase when the rule has a count; it ends with "until <YYYY-MM-DD>" and has no
\* "times" phrase when the rule has no count and has an until; it has neither
\* phrase when the rule has neither.
C16_OneEndCondition ==
    ParsedRecurrence =>
       LET h == parsed[1][1].recurrence[1].humanReadable
           rule == doc[1].rrule[1]
       IN
       /\ rule.count # <<>> =>
             /\ EndsWith(h, "(" \o ToString(rule.count[1]) \o " times)")
             /\ ~Contains(h, "until ")
       /\ (rule.count = <<>> /\ rule.until # <<>>) =>
             /\ EndsWith(h, "until " \o toISODate(toJSDate(rule.until[1])))
             /\ ~Contains(h, " times)")
       /\ (rule.count = <<>> /\ rule.until = <<>>) =>
             /\ ~Contains(h, "until ")
             /\ ~Contains(h, " times)")

C16_Witness ==
    /\ ParsedRecurrence
    /\ doc[1].rrule[1].count = <<2>>
    /\ doc[1].rrule[1].until # <<>>
    /\ parsed[1][1].recurrence[1].humanReadable = "every 2 weeks on Monday, Wednesday (2 times)"

----------------------------------------------------------------------------
(* Text values on a content line.  A text is the sequence of its characters. *)

\* the characters ical.js escapes, the letters an escape is spelled with, and one
\* ordinary character
Chars == {",", ";", "\\", "\n", "n", "N", "a"}

RECURSIVE SeqsOf(_, _)
\* the sequences over S of length n
SeqsOf(S, n) ==
    IF n = 0 THEN {<<>>}
    ELSE {Append(s, c) : s \in SeqsOf(S, n - 1), c \in S}

\* the text values written
TextValues == UNION {SeqsOf(Chars, n) : n \in 0..MaxLen}

\* the replacement of ical.js' text type toICAL for one match of /\\|;|,|\n/g
toICALReplace(c) ==
    CASE c = "\\" -> <<"\\", "\\">>
      [] c = ";" -> <<"\\", ";">>
      [] c = "," -> <<"\\", ",">>
      [] c = "\n" -> <<"\\", "n">>
      [] OTHER -> <<c>>

RECURSIVE toICAL(_)
\* vcalendar.toString() printing a text value: every match is replaced
toICAL(aValue) ==
    IF aValue = <<>> THEN <<>>
    ELSE toICALReplace(aValue[1]) \o toICAL(Tail(aValue))

\* one pass of String.prototype.replace(/\\c/g, r) over a line
RECURSIVE replaceEscaped(_, _, _)
replaceEscaped(line, c, r) ==
    IF line = <<>> THEN <<>>
    ELSE IF line[1] = "\\" /\ Len(line) >= 2 /\ line[2] = c
    THEN <<r>> \o replaceEscaped(SubSeq(line, 3, Len(line)), c, r)
    ELSE <<line[1]>> \o replaceEscaped(Tail(line), c, r)

\* the unescaping of the regular-expression parser that ical.js replaced: three
\* replacements one after another and no rule for the backslash
fromICALThreePasses(aValue) ==
    replaceEscaped(replaceEscaped(replaceEscaped(aValue, ",", ","), ";", ";"), "n", "\n")

RECURSIVE fromICAL(_)
\* ICAL.parse reading a text value: one pass replacing every match of
\* /\\\\|\;|\\,|\\[Nn]/g
fromICAL(aValue) ==
    IF aValue = <<>> THEN <<>>
    ELSE IF aValue[1] = "\\" /\ Len(aValue) >= 2 /\ aValue[2] \in {"\\", ";", ",", "n", "N"}
    THEN <<IF aValue[2] \in {"n", "N"} THEN "\n" ELSE aValue[2]>>
         \o fromICAL(SubSeq(aValue, 3, Len(aValue)))
    ELSE <<aValue[1]>> \o fromICAL(Tail(aValue))

\* createICalString / updateICalString: a summary is set and the document printed
WriteField(s) ==
    /\ field = <<>>
    /\ field' = <<[value |-> s, line |-> toICAL(s), read |-> <<>>]>>
    /\ UNCHANGED <<serviceVars, eventVars, textVars, calls, server, ops>>

\* parseICalEvent: the document is parsed and event.summary read
ReadField ==
    /\ field # <<>>
    /\ field[1].read = <<>>
    /\ field' = <<[field[1] EXCEPT !.read = <<fromICAL(field[1].line)>>]>>
    /\ UNCHANGED <<serviceVars, eventVars, textVars, calls, server, ops>>

Write == \E s \in TextValues : WriteField(s)

\* one text field written and read back
FieldNext == Write \/ ReadField
FieldSpec == Init /\ [][FieldNext]_vars

\* C17: for every text made of commas, semicolons, backslashes, newlines and
\* ordinary characters, the text read back from the content line it was written
\* to is that text.
C17_EscapeRoundTrip ==
    (field # <<>> /\ field[1].read # <<>>) => field[1].read[1] = field[1].value

C17_Witness ==
    /\ field # <<>>
    /\ field[1].value = <<"\\", "n", ",">>
    /\ field[1].line = <<"\\", "\\", "n", "\\", ",">>
    /\ field[1].read = << <<"\\", "n", ",">> >>

----------------------------------------------------------------------------
(* Concurrent calls of the codec.  Every call runs in an activation of its own: *)
(* its arguments, the clock reading and random draw it took, the statement it   *)
(* has reached (pc) and the component tree it works on (the constants vcalendar *)
(* and vevent of the function body).                                            *)

Callers == 1..NumCallers

\* the clock readings a call can take
Clocks == {1, 2}

\* the k-th block of updateICalString, in source order
updateBlock(k, d, u) ==
    CASE k = 1 -> updateSummary(d, u)
      [] k = 2 -> updateStart(d, u)
      [] k = 3 -> updateEnd(d, u)
      [] k = 4 -> updateLocation(d, u)
      [] k = 5 -> updateDescription(d, u)
      [] k = 6 -> updateStatus(d, u)
      [] k = 7 -> updateUrl(d, u)
      [] k = 8 -> updateCategories(d, u)
      [] k = 9 -> updatePriority(d, u)
      [] k = 10 -> updateTransparency(d, u)
      [] k = 11 -> updateOrganizer(d, u)
      [] k = 12 -> updateAttendees(d, u)
      [] k = 13 -> updateReminders(d, u)

RECURSIVE updateBlocks(_, _, _, _)
\* the blocks first..last run one after another on the same vevent
updateBlocks(first, last, d, u) ==
    IF first > last THEN d
    ELSE updateBlocks(first + 1, last, updateBlock(first, d, u), u)

\* a call entering the function fn
Activation(fn, input, updates, clock, random) ==
    [fn |-> fn, input |-> input, updates |-> updates, clock |-> clock, random |-> random,
     pc |-> 0, vevent |-> <<>>, result |-> <<>>]

\* the calls made
Activations ==
    {Activation("createICalString", FullParams, <<>>, t, r) : t \in Clocks, r \in Randoms}
    \cup {Activation("parseICalEvent", x, <<>>, 1, "") : x \in {icalText(ForeignDoc), TruncatedText}}
    \cup {Activation("updateICalString", icalText(ForeignDoc), u, t, "") :
             u \in {[EmptyPatch EXCEPT !.summary = Some("Review"),
                        !.reminders = Some(<<[NoReminder EXCEPT !.days = Some(1)]>>)],
                    [EmptyPatch EXCEPT !.allDay = Some(TRUE)]},
             t \in Clocks}
    \cup {Activation("updateICalString", NoVEventText, EmptyPatch, 1, "")}

\* the component tree every call works on, were it a variable of the module
veventShared(cs, c) ==
    LET holders == {k \in DOMAIN cs : cs[k] # <<>> /\ cs[k][1].vevent # <<>>}
    IN  cs[CHOOSE k \in holders : \A j \in holders : k <= j][1].vevent[1]

\* the component tree call c works on: the constant vevent of its own activation
vevent(cs, c) == cs[c][1].vevent[1]

\* a caller enters a codec function
BeginCall(c, a) ==
    /\ calls[c] = <<>>
    /\ calls' = [calls EXCEPT ![c] = <<a>>]
    /\ UNCHANGED <<serviceVars, eventVars, textVars, field, server, ops>>

\* createICalString: build the component tree, then print it and return
CreateRuns(c) ==
    /\ calls[c] # <<>>
    /\ calls[c][1].fn = "createICalString"
    /\ calls[c][1].result = <<>>
    /\ LET a == calls[c][1] IN
       calls' = [calls EXCEPT ![c] = <<
          IF a.pc = 0
          THEN [a EXCEPT !.pc = 1,
                         !.vevent = <<createICalString(a.input, a.clock, a.random)>>]
          ELSE [a EXCEPT !.pc = 2,
                         !.result = <<Return([icalString |-> icalText(vevent(calls, c)),
                                              uid |-> generateEventUid(a.clock, a.random)])>>]
          >>]
    /\ UNCHANGED <<serviceVars, eventVars, textVars, field, server, ops>>

\* parseICalEvent: test the markers and open the text, then read the VEVENT
ParseRuns(c) ==
    /\ calls[c] # <<>>
    /\ calls[c][1].fn = "parseICalEvent"
    /\ calls[c][1].result = <<>>
    /\ LET a == calls[c][1]
           opened == getFirstSubcomponent(a.input)
       IN
       calls' = [calls EXCEPT ![c] = <<
          IF a.pc = 0
          THEN IF \/ ~a.input.hasVCalendar \/ ~a.input.hasVEvent
                  \/ opened.threw \/ opened.value = <<>>
               THEN [a EXCEPT !.pc = 2, !.result = <<Return(None)>>]
               ELSE [a EXCEPT !.pc = 1, !.vevent = opened.value]
          ELSE LET d == vevent(calls, c) IN
               [a EXCEPT !.pc = 2,
                         !.result =
                            <<IF /\ d.uid # <<>> /\ d.uid[1] # "" /\ d.dtstart # <<>>
                                 /\ ~a.input.startDecodes
                              THEN Return(None)
                              ELSE Return(parseICalEvent(d, EventUrl))>>]
          >>]
    /\ UNCHANGED <<serviceVars, eventVars, textVars, field, server, ops>>

\* updateICalString: open the text, run the blocks for summary to url and for
\* categories to reminders, set DTSTAMP, then print and return
UpdateRuns(c) ==
    /\ calls[c] # <<>>
    /\ calls[c][1].fn = "updateICalString"
    /\ calls[c][1].result = <<>>
    /\ LET a == calls[c][1]
           opened == getFirstSubcomponent(a.input)
       IN
       calls' = [calls EXCEPT ![c] = <<
          CASE a.pc = 0 ->
                 IF opened.threw THEN [a EXCEPT !.pc = 5, !.result = <<opened>>]
                 ELSE IF opened.value = <<>>
                 THEN [a EXCEPT !.pc = 5, !.result = <<Throw("No VEVENT found in iCal string")>>]
                 ELSE [a EXCEPT !.pc = 1, !.vevent = opened.value]
            [] a.pc = 1 ->
                 IF /\ a.updates.start = <<>> /\ a.updates.allDay # <<>>
                    /\ vevent(calls, c).dtstart # <<>> /\ ~a.input.startDecodes
                 THEN [a EXCEPT !.pc = 5, !.result = <<Throw("invalid date-time value")>>]
                 ELSE [a EXCEPT !.pc = 2,
                                !.vevent = <<updateBlocks(1, 7, vevent(calls, c), a.updates)>>]
            [] a.pc = 2 ->
                 [a EXCEPT !.pc = 3,
                           !.vevent = <<updateBlocks(8, 13, vevent(calls, c), a.updates)>>]
            [] a.pc = 3 ->
                 [a EXCEPT !.pc = 4, !.vevent = <<updateDtstamp(vevent(calls, c), a.clock)>>]
            [] a.pc = 4 ->
                 [a EXCEPT !.pc = 5,
                           !.result = <<Return([a.input EXCEPT
                                           !.vevent = <<vevent(calls, c)>>,
                                           !.startDecodes = @ \/ a.updates.start # <<>>])>>]
          >>]
    /\ UNCHANGED <<serviceVars, eventVars, textVars, field, server, ops>>

Begin == \E c \in Callers, a \in Activations : BeginCall(c, a)
RunCreate == \E c \in Callers : CreateRuns(c)
RunParse == \E c \in Callers : ParseRuns(c)
RunUpdate == \E c \in Callers : UpdateRuns(c)

\* several callers in the codec at once, their statements interleaved
CallNext == Begin \/ RunCreate \/ RunParse \/ RunUpdate
CallSpec == Init /\ [][CallNext]_vars

\* what a call returns when nothing else runs
Alone(a) ==
    CASE a.fn = "createICalString" ->
           Return([icalString |-> icalText(createICalString(a.input, a.clock, a.random)),
                   uid |-> generateEventUid(a.clock, a.random)])
      [] a.fn = "parseICalEvent" -> parseICalEventText(a.input, EventUrl)
      [] a.fn = "updateICalString" -> updateICalStringText(a.input, a.updates, a.clock)

\* C18: whatever calls of createICalString, parseICalEvent and updateICalString run
\* interleaved with it, a call that has ended has the outcome it has when run alone
\* with the same arguments, clock reading and random draw.
C18_CallsDoNotInterfere ==
    \A c \in Callers :
       (calls[c] # <<>> /\ calls[c][1].result # <<>>)
          => calls[c][1].result[1] = Alone(calls[c][1])

C18_Witness ==
    /\ calls[1] # <<>>
    /\ calls[1][1].fn = "updateICalString"
    /\ calls[1][1].pc = 3
    /\ calls[1][1].vevent # <<>>
    /\ calls[2] # <<>>
    /\ calls[2][1].fn = "updateICalString"
    /\ calls[2][1].updates # calls[1][1].updates
    /\ calls[2][1].result # <<>>
    /\ ~calls[2][1].result[1].threw

----------------------------------------------------------------------------
(* update_event against the CalDAV server.  The handler awaits the server    *)
(* twice, for the fetch and for the write; between two awaits it runs alone. *)

Ops == 1..NumOps

\* the arguments of update_event with only the url given
EmptyArgs ==
    [url |-> EventUrl, summary |-> None, start |-> None, end |-> None, allDay |-> None,
     location |-> None, description |-> None, attendees |-> None, organizer |-> None,
     status |-> None, eventUrl |-> None, categories |-> None, priority |-> None,
     showAs |-> None, reminders |-> None]

\* the calls made: a new title shown as free with high priority, a start that is
\* no date, a new end with the location cleared
UpdateArgs ==
    {[EmptyArgs EXCEPT !.summary = Some("Review"), !.showAs = Some("free"),
                       !.priority = Some(Some("high"))],
     [EmptyArgs EXCEPT !.start = Some("next tuesday")],
     [EmptyArgs EXCEPT !.end = Some("2024-12-26T09:00:00"), !.location = Some("")]}

\* new Date(string): <<>> stands for an Invalid Date
newDate(s) ==
    CASE s = "2024-12-25T00:00:00" -> Some(Date3)
      [] s = "2024-12-26T09:00:00" -> Some(Date4)
      [] OTHER -> None

\* the number a priority word compares as (NaN: neither >= 1 nor <= 9 holds)
priorityNumber(word) == -1

\* the UpdateEventParams update_event hands to updateICalString; start and end are
\* the dates parsed before.  showAs is passed under a key updateICalString does
\* not read, so transparency is never set.
toUpdates(args) ==
    [summary |-> args.summary,
     start |-> IF TruthyStr(args.start) THEN newDate(args.start[1]) ELSE None,
     end |-> IF TruthyStr(args.end) THEN newDate(args.end[1]) ELSE None,
     allDay |-> args.allDay,
     location |-> args.location,
     description |-> args.description,
     attendees |-> args.attendees,
     organizer |-> args.organizer,
     status |-> args.status,
     url |-> args.eventUrl,
     categories |-> args.categories,
     priority |-> IF args.priority = <<>> THEN None
                  ELSE IF args.priority[1] = <<>> THEN Some(None)
                  ELSE Some(Some(priorityNumber(args.priority[1][1]))),
     transparency |-> None,
     reminders |-> args.reminders]

\* the handler's end: the response it returns, nothing sent
Respond(message) == [response |-> <<message>>, request |-> <<>>]

\* the calendarObject handed to updateCalendarObject, sent without the etag
calendarObjectNoEtag(args, existingEvent, updatedICalString) ==
    [url |-> args.url, data |-> updatedICalString, etag |-> 0]

\* the calendarObject handed to updateCalendarObject
calendarObject(args, existingEvent, updatedICalString) ==
    [url |-> args.url, data |-> updatedICalString, etag |-> existingEvent.etag]

\* the handler from the answer of the fetch to its next await that, when
\* updateICalString throws, writes the fetched data back
afterFetchWritesBack(args, fetchResponse, timestamp) ==
    IF Len(fetchResponse) = 0 THEN Respond("Event not found")
    ELSE LET existingEvent == fetchResponse[1] IN
         IF existingEvent.data = <<>> THEN Respond("Event has no data")
         ELSE IF TruthyStr(args.start) /\ newDate(args.start[1]) = <<>>
         THEN Respond("Invalid start date")
         ELSE IF TruthyStr(args.end) /\ newDate(args.end[1]) = <<>>
         THEN Respond("Invalid end date")
         ELSE LET updated == updateICalStringText(existingEvent.data[1], toUpdates(args), timestamp)
              IN  IF updated.threw
                  THEN [response |-> <<>>,
                        request |-> <<calendarObject(args, existingEvent, existingEvent.data[1])>>]
                  ELSE [response |-> <<>>,
                        request |-> <<calendarObject(args, existingEvent, updated.value)>>]

\* the handler from the answer of the fetch to its next await: the checks of the
\* answer and of the dates, updateICalString (an error it throws is caught and
\* becomes the response), then the write request
afterFetch(args, fetchResponse, timestamp) ==
    IF Len(fetchResponse) = 0 THEN Respond("Event not found")
    ELSE LET existingEvent == fetchResponse[1] IN
         IF existingEvent.data = <<>> THEN Respond("Event has no data")
         ELSE IF TruthyStr(args.start) /\ newDate(args.start[1]) = <<>>
         THEN Respond("Invalid start date")
         ELSE IF TruthyStr(args.end) /\ newDate(args.end[1]) = <<>>
         THEN Respond("Invalid end date")
         ELSE LET updated == updateICalStringText(existingEvent.data[1], toUpdates(args), timestamp)
              IN  IF updated.threw THEN Respond(updated.value)
                  ELSE [response |-> <<>>,
                        request |-> <<calendarObject(args, existingEvent, updated.value)>>]

\* the data another CalDAV client stores: an event, an envelope without a VEVENT,
\* an object without data
StoredData == {<<icalText(ForeignDoc)>>, <<NoVEventText>>, <<>>}

\* another CalDAV client stores the event
ExternalStore(x) ==
    /\ server.etag < MaxStores
    /\ server' = [exists |-> TRUE, data |-> x, etag |-> server.etag + 1]
    /\ UNCHANGED <<serviceVars, eventVars, textVars, field, calls, ops>>

\* update_event is called: the handler asks the server for the event
CallUpdateEvent(o, args) ==
    /\ ops[o].pc = "idle"
    /\ ops' = [ops EXCEPT ![o].pc = "fetching", ![o].args = <<args>>]
    /\ UNCHANGED <<serviceVars, eventVars, textVars, field, calls, server>>

\* the caller gives the call up while the handler waits for the fetch
Abandon(o) ==
    /\ ops[o].pc = "fetching"
    /\ ops' = [ops EXCEPT ![o].pc = "abandoned"]
    /\ UNCHANGED <<serviceVars, eventVars, textVars, field, calls, server>>

\* fetchCalendarObjects throws: the catch block answers
FetchFails(o) ==
    /\ ops[o].pc = "fetching"
    /\ ops' = [ops EXCEPT ![o].pc = "done", ![o].response = <<"fetch failed">>]
    /\ UNCHANGED <<serviceVars, eventVars, textVars, field, calls, server>>

\* the server answers the fetch and the handler runs to its end or to the write
FetchReturns(o) ==
    /\ ops[o].pc = "fetching"
    /\ LET fetchResponse == IF server.exists
                            THEN <<[data |-> server.data, etag |-> server.etag]>>
                            ELSE <<>>
           next == afterFetch(ops[o].args[1], fetchResponse, now)
       IN  ops' = [ops EXCEPT ![o].existingEvent = fetchResponse,
                              ![o].request = next.request,
                              ![o].response = next.response,
                              ![o].pc = IF next.request = <<>> THEN "done" ELSE "writing"]
    /\ UNCHANGED <<serviceVars, eventVars, textVars, field, calls, server>>

\* updateCalendarObject throws before the server saw the request
WriteFails(o) ==
    /\ ops[o].pc = "writing"
    /\ ops' = [ops EXCEPT ![o].pc = "done", ![o].response = <<"write failed">>]
    /\ UNCHANGED <<serviceVars, eventVars, textVars, field, calls, server>>

\* the server handles the write: a request with an etag carries it as If-Match, and
\* the server stores the data when that etag is the etag of the object it holds and
\* refuses (412) otherwise; a request without an etag (0) is unconditional
ServerWrites(o) ==
    /\ ops[o].pc = "writing"
    /\ LET calendarObj == ops[o].request[1]
           ok == server.exists /\ (calendarObj.etag = 0 \/ calendarObj.etag = server.etag)
       IN  /\ server' = IF ok
                        THEN [exists |-> TRUE, data |-> <<calendarObj.data>>,
                              etag |-> server.etag + 1]
                        ELSE server
           /\ ops' = [ops EXCEPT ![o].pc = "done",
                                 ![o].response = IF ok THEN <<"Event updated successfully.">>
                                                 ELSE <<"Failed to update event: 412">>]
    /\ UNCHANGED <<serviceVars, eventVars, textVars, field, calls>>

Store == \E x \in StoredData : ExternalStore(x)
CallUpdate == \E o \in Ops, args \in UpdateArgs : CallUpdateEvent(o, args)
GiveUp == \E o \in Ops : Abandon(o)
FetchError == \E o \in Ops : FetchFails(o)
FetchAnswer == \E o \in Ops : FetchReturns(o)
WriteError == \E o \in Ops : WriteFails(o)
WriteAnswer == \E o \in Ops : ServerWrites(o)

\* update_event calls in flight against one event on the server
ToolNext ==
    Store \/ CallUpdate \/ GiveUp \/ FetchError \/ FetchAnswer \/ WriteError \/ WriteAnswer
ToolSpec == Init /\ [][ToolNext]_vars

----------------------------------------------------------------------------
(* Claims about update_event *)

\* the document updateICalString returns for what call o fetched
Patched(o) ==
    updateICalStringText(ops[o].existingEvent[1].data[1], toUpdates(ops[o].args[1]), now)

\* C19: a step of an update_event call changes the object on the server only when
\* it is the server's handling of that call's write, which stores the complete
\* document updateICalString returned for the fetched data; a call that was given
\* up, whose fetch failed or came back empty, whose dates are invalid or whose
\* updateICalString threw never reaches the write.
C19_NoWriteBeforePatch ==
    [][(ops' # ops /\ server' # server) =>
          \E o \in Ops :
             /\ ops[o].pc = "writing"
             /\ ops'[o].pc = "done"
             /\ ops[o].existingEvent # <<>>
             /\ ops[o].existingEvent[1].data # <<>>
             /\ ~Patched(o).threw
             /\ server'.data = <<Patched(o).value>>]_vars

C19_Witness ==
    /\ ops[1].pc = "done"
    /\ ops[1].response = <<"No VEVENT found in iCal string">>
    /\ ops[1].request = <<>>
    /\ ops[2].pc = "done"
    /\ ops[2].response = <<"Event updated successfully.">>
    /\ server.data = <<Patched(2).value>>
    /\ server.etag = 3

\* C20: the etag of the write request of an update_event call is the etag the
\* server gave in its answer to that call's fetch, whatever has been stored on the
\* server since.
C20_EtagPassedThrough ==
    [][\A o \in Ops :
          /\ (ops[o].pc = "fetching" /\ ops'[o].pc = "writing")
                => /\ ops'[o].request[1].etag = server.etag
                   /\ ops'[o].existingEvent[1].etag = server.etag
          /\ (ops[o].pc = "writing")
                => /\ ops[o].request[1].etag = ops[o].existingEvent[1].etag
                   /\ ops'[o].request = ops[o].request
                   /\ ops'[o].existingEvent = ops[o].existingEvent]_vars

C20_Witness ==
    /\ ops[1].pc = "writing"
    /\ ops[1].request[1].etag = 1
    /\ ops[1].existingEvent[1].etag = 1
    /\ server.etag = 3
    /\ ops[2].response = <<"Event updated successfully.">>

-----------------------------------------------------------------------------
(* Claims about the granularity of DTSTART and DTEND *)

\* C24: in every document that createICalString produced, and in every document that
\* any sequence of updateICalString calls made of it, DTSTART and DTEND, when both
\* are present, have the same granularity: both date-only or both date-time.
C24_SameGranularity ==
    (doc # <<>> /\ params # <<>> /\ doc[1].dtstart # <<>> /\ doc[1].dtend # <<>>)
        => doc[1].dtstart[1].isDate = doc[1].dtend[1].isDate

-----------------------------------------------------------------------------
(* Claims about concurrent update_event calls *)

\* C26: when two update_event calls on the same event fetched the same stored
\* version (the same etag), at most one of their writes is accepted by a server that
\* refuses a write carrying a stale etag: the two calls never both answer
\* "Event updated successfully.", and the refused call's write changes nothing.
C26_AtMostOneWriteAccepted ==
    \A o1, o2 \in Ops :
        (/\ o1 # o2
         /\ ops[o1].existingEvent # <<>>
         /\ ops[o2].existingEvent # <<>>
         /\ ops[o1].existingEvent[1].etag = ops[o2].existingEvent[1].etag)
        => ~(/\ ops[o1].response = <<"Event updated successfully.">>
             /\ ops[o2].response = <<"Event updated successfully.">>)

C26_Witness ==
    /\ ops[1].existingEvent # <<>>
    /\ ops[2].existingEvent # <<>>
    /\ ops[1].existingEvent[1].etag = ops[2].existingEvent[1].etag
    /\ ops[1].args # ops[2].args
    /\ ops[1].response = <<"Event updated successfully.">>
    /\ ops[2].response = <<"Failed to update event: 412">>
    /\ server.data = <<Patched(1).value>>

-----------------------------------------------------------------------------
(* Claims about the arguments of update_event *)

\* C25: every optional argument update_event accepts determines the corresponding
\* field of the document handed to the CalDAV write: with showAs "free" the
\* document carries TRANSP:TRANSPARENT, with priority "high" it carries a PRIORITY
\* of the high range (1 to 4), and the summary given is its SUMMARY.
C25_ArgumentsDetermineFields ==
    \A o \in Ops :
        (ops[o].pc = "writing" /\ ops[o].request[1].data.vevent # <<>>)
        => LET args == ops[o].args[1]
               written == ops[o].request[1].data.vevent[1]
           IN  /\ args.summary # <<>> => written.summary = args.summary
               /\ args.showAs = <<"free">> => written.transp = <<"TRANSPARENT">>
               /\ args.priority = << <<"high">> >>
                     => (written.priority # <<>> /\ written.priority[1] \in 1..4)

-----------------------------------------------------------------------------
(* The email tools against the JMAP server.  A keywords object is a function *)
(* from keyword to boolean; an email is its set of keywords and its set of   *)
(* mailbox ids.                                                              *)

\* the JMAP keyword of a flag name: the conditional chain of search and of update's
\* remove_flags, which is also what REVERSE_KEYWORD_MAP[flag] || `$${flag}` gives
flagKeyword(cleanFlag) ==
    CASE cleanFlag = "read" -> "$seen"
      [] cleanFlag = "flagged" -> "$flagged"
      [] cleanFlag = "replied" -> "$answered"
      [] cleanFlag = "draft" -> "$draft"
      [] OTHER -> "$" \o cleanFlag

\* the flags part of the filter search builds: every flag assigns hasKeyword or
\* notKeyword of the one filter object, a later flag overwriting an earlier one
RECURSIVE searchFilter(_, _)
searchFilter(filter, flags) ==
    IF flags = <<>> THEN filter
    ELSE LET flag == Head(flags)
             isNegated == SubSeq(flag, 1, 1) = "!"
             cleanFlag == IF isNegated THEN SubSeq(flag, 2, Len(flag)) ELSE flag
             keyword == flagKeyword(cleanFlag)
         IN  searchFilter(IF isNegated THEN [filter EXCEPT !.notKeyword = <<keyword>>]
                                       ELSE [filter EXCEPT !.hasKeyword = <<keyword>>],
                          Tail(flags))

\* Email/query on the server: the ids of the emails that have the filter's
\* hasKeyword and do not have its notKeyword
emailQuery(store, filter) ==
    {id \in DOMAIN store :
        /\ store[id] # <<>>
        /\ filter.hasKeyword # <<>> => filter.hasKeyword[1] \in store[id][1].keywords
        /\ filter.notKeyword # <<>> => filter.notKeyword[1] \notin store[id][1].keywords}

\* parseFlags(flags).add
RECURSIVE parseFlags(_)
parseFlags(flags) ==
    IF flags = <<>> THEN {}
    ELSE LET flag == Head(flags)
             isNegated == SubSeq(flag, 1, 1) = "!"
         IN  (IF isNegated THEN {} ELSE {flagKeyword(flag)}) \cup parseFlags(Tail(flags))

\* the keywords object update builds from add_flags and remove_flags: the added
\* keywords true, then the removed keywords false
updateKeywords(args) ==
    LET add == IF args.add_flags # <<>> THEN parseFlags(args.add_flags[1]) ELSE {}
        remove == IF args.remove_flags # <<>>
                  THEN {flagKeyword(args.remove_flags[1][i]) :
                            i \in 1..Len(args.remove_flags[1])}
                  ELSE {}
    IN  [k \in add \cup remove |-> k \notin remove]

\* Email/set update on the server for one email: the keywords property, when the
\* update has one, replaces the email's keywords; a keywords object with a value
\* that is not true is refused, as is an id the account does not have
emailSetUpdate(email, update) ==
    IF email = <<>> THEN [updated |-> FALSE, email |-> email]
    ELSE IF update.keywords = <<>> THEN [updated |-> TRUE, email |-> email]
    ELSE IF \E k \in DOMAIN update.keywords[1] : ~update.keywords[1][k]
    THEN [updated |-> FALSE, email |-> email]
    ELSE [updated |-> TRUE,
          email |-> <<[email[1] EXCEPT !.keywords = DOMAIN update.keywords[1]]>>]

\* the flag expressions searched with
SearchFlags ==
    {<<"read", "flagged">>, <<"flagged", "!read">>, <<"!flagged", "!read">>,
     <<"read">>, <<"!draft">>}

\* the arguments update is called with
UpdateFlagArgs ==
    [ids : {<<"e1">>, <<"e1", "e2">>, <<"e3">>},
     add_flags : {None, Some(<<"read">>), Some(<<"replied">>)},
     remove_flags : {None, Some(<<"flagged">>)}]

\* the search tool called with flags: the filter is built, the server queried
SearchTool(flags) ==
    /\ LET filter == searchFilter([hasKeyword |-> None, notKeyword |-> None], flags)
       IN  mailCall' = <<[tool |-> "search", args |-> [flags |-> flags],
                          response |-> emailQuery(emails, filter)]>>
    /\ UNCHANGED <<eventVars, textVars, extraVars, emails, submissions, send,
                   cacheVars, calendarVars>>

\* the update tool called with flags: one update per id, one Email/set
UpdateTool(args) ==
    /\ LET update == [keywords |-> IF args.add_flags # <<>> \/ args.remove_flags # <<>>
                                   THEN <<updateKeywords(args)>> ELSE <<>>]
           ids == {args.ids[i] : i \in 1..Len(args.ids)}
           set == [id \in ids |-> emailSetUpdate(emails[id], update)]
       IN  /\ emails' = [id \in DOMAIN emails |->
                            IF id \in ids THEN set[id].email ELSE emails[id]]
           /\ mailCall' = <<[tool |-> "update", args |-> args,
                             response |-> [updated |-> {id \in ids : set[id].updated},
                                           failed |-> {id \in ids : ~set[id].updated}]]>>
    /\ UNCHANGED <<eventVars, textVars, extraVars, submissions, send,
                   cacheVars, calendarVars>>

-----------------------------------------------------------------------------
(* Mailboxes and the send tool *)

\* the accounts and their mailboxes as Mailbox/get lists them: A has the usual
\* mailboxes, B has no Sent mailbox, C has neither Drafts nor Sent
Accounts == {"A", "B", "C"}

Mailboxes(accountId) ==
    CASE accountId = "A" ->
            << [id |-> "a1", name |-> "Inbox", role |-> <<"inbox">>],
               [id |-> "a2", name |-> "Drafts", role |-> <<"drafts">>],
               [id |-> "a3", name |-> "Sent", role |-> <<"sent">>] >>
      [] accountId = "B" ->
            << [id |-> "b1", name |-> "Inbox", role |-> <<"inbox">>],
               [id |-> "b2", name |-> "Drafts", role |-> <<"drafts">>],
               [id |-> "b3", name |-> "Archive", role |-> <<"archive">>] >>
      [] OTHER ->
            << [id |-> "c1", name |-> "Inbox", role |-> <<"inbox">>] >>

MAILBOX_ROLES == {"inbox", "archive", "drafts", "sent", "trash", "junk", "important", "all"}

\* resolveMailbox once the cache is filled: the first mailbox of the cached map
\* with the role, else the mailbox with the id, else the first with the name, else
\* the first whose name contains the input; <<>> is null
lookupMailbox(cache, nameOrIdOrRole) ==
    LET input == toLowerCase(nameOrIdOrRole)
        all == 1..Len(cache)
        byRole == {i \in all : /\ input \in MAILBOX_ROLES
                               /\ cache[i].role # <<>>
                               /\ toLowerCase(cache[i].role[1]) = input}
        byId == {i \in all : cache[i].id = nameOrIdOrRole}
        byName == {i \in all : toLowerCase(cache[i].name) = input}
        fuzzy == {i \in all : Contains(toLowerCase(cache[i].name), input)}
        hits == IF byRole # {} THEN byRole
                ELSE IF byId # {} THEN byId
                ELSE IF byName # {} THEN byName
                ELSE fuzzy
    IN  IF hits = {} THEN <<>>
        ELSE <<cache[CHOOSE i \in hits : \A j \in hits : i <= j]>>

\* the arguments send is called with
SendArgs == [identity : {"you@example.com", "nobody@example.com"}, draft : BOOLEAN]

\* the identities of every account
Identities == << [id |-> "i1", email |-> "you@example.com"] >>

\* the handler after Email/set answered, sending without asking for the update of
\* the email
afterCreateNoUpdate(accountId, args, created) ==
    IF created = <<>> THEN [response |-> <<"Error: Failed to create email">>, request |-> <<>>]
    ELSE IF args.draft THEN [response |-> <<"Draft saved: " \o created[1]>>, request |-> <<>>]
    ELSE LET sentMailbox == lookupMailbox(Mailboxes(accountId), "sent")
         IN  IF sentMailbox = <<>>
             THEN [response |-> <<"Error: Could not find Sent mailbox">>, request |-> <<>>]
             ELSE [response |-> <<>>,
                   request |-> <<[emailId |-> created[1], onSuccessUpdateEmail |-> <<>>]>>]

\* the handler after Email/set answered, not looking at args.draft
afterCreateAlwaysSends(accountId, args, created) ==
    IF created = <<>> THEN [response |-> <<"Error: Failed to create email">>, request |-> <<>>]
    ELSE LET sentMailbox == lookupMailbox(Mailboxes(accountId), "sent")
         IN  IF sentMailbox = <<>>
             THEN [response |-> <<"Error: Could not find Sent mailbox">>, request |-> <<>>]
             ELSE [response |-> <<>>,
                   request |-> <<[emailId |-> created[1],
                                  onSuccessUpdateEmail |->
                                      <<[mailboxIds |-> {sentMailbox[1].id},
                                         removeKeywords |-> {"$draft"}]>>]>>]

\* the handler after Email/set answered (created is <<>> or the new email's id): the
\* error for an email not created, the answer for a draft, the lookup of the Sent
\* mailbox and the EmailSubmission/set request that moves the email to Sent and
\* clears $draft on success
afterCreate(accountId, args, created) ==
    IF created = <<>> THEN [response |-> <<"Error: Failed to create email">>, request |-> <<>>]
    ELSE IF args.draft THEN [response |-> <<"Draft saved: " \o created[1]>>, request |-> <<>>]
    ELSE LET sentMailbox == lookupMailbox(Mailboxes(accountId), "sent")
         IN  IF sentMailbox = <<>>
             THEN [response |-> <<"Error: Could not find Sent mailbox">>, request |-> <<>>]
             ELSE [response |-> <<>>,
                   request |-> <<[emailId |-> created[1],
                                  onSuccessUpdateEmail |->
                                      <<[mailboxIds |-> {sentMailbox[1].id},
                                         removeKeywords |-> {"$draft"}]>>]>>]

\* send is called: the Drafts mailbox and the identity are looked up and, when both
\* are found, the server is asked to create the email
CallSend(accountId, args) ==
    /\ send.pc = "idle"
    /\ LET draftsMailbox == lookupMailbox(Mailboxes(accountId), "drafts")
           resolvedIdentity == {i \in 1..Len(Identities) :
                                   \/ Identities[i].id = args.identity
                                   \/ toLowerCase(Identities[i].email)
                                         = toLowerCase(args.identity)}
       IN  send' = IF draftsMailbox = <<>>
                   THEN [send EXCEPT !.pc = "done", !.accountId = accountId,
                                     !.args = <<args>>,
                                     !.response = <<"Error: Could not find Drafts mailbox">>]
                   ELSE IF resolvedIdentity = {}
                   THEN [send EXCEPT !.pc = "done", !.accountId = accountId,
                                     !.args = <<args>>,
                                     !.response = <<"Error: Could not find identity">>]
                   ELSE [send EXCEPT !.pc = "creating", !.accountId = accountId,
                                     !.args = <<args>>,
                                     !.request = <<[mailboxIds |-> {draftsMailbox[1].id},
                                                    keywords |-> {"$draft"}]>>]
    /\ UNCHANGED <<eventVars, textVars, extraVars, emails, submissions, mailCall,
                   cacheVars, calendarVars>>

\* the server answers Email/set: it created the email as e3, it refused, or the
\* call threw; the handler runs to its answer or to the EmailSubmission/set request
EmailSetAnswers(outcome) ==
    /\ send.pc = "creating"
    /\ LET created == IF outcome = "created" THEN <<"e3">> ELSE <<>>
           next == afterCreate(send.accountId, send.args[1], created)
       IN  /\ emails' = IF outcome = "created"
                        THEN [emails EXCEPT !["e3"] = send.request]
                        ELSE emails
           /\ send' = IF outcome = "throws"
                      THEN [send EXCEPT !.pc = "done", !.request = <<>>,
                                        !.response = <<"Error: request failed">>]
                      ELSE [send EXCEPT !.pc = IF next.request = <<>> THEN "done"
                                               ELSE "submitting",
                                        !.request = next.request,
                                        !.response = next.response]
    /\ UNCHANGED <<eventVars, textVars, extraVars, submissions, mailCall,
                   cacheVars, calendarVars>>

\* the server answers EmailSubmission/set: it created the submission and then
\* applied the request's onSuccessUpdateEmail to the email, it refused, or the call
\* threw
SubmissionSetAnswers(outcome) ==
    /\ send.pc = "submitting"
    /\ LET submission == send.request[1]
           emailId == submission.emailId
           patched == IF submission.onSuccessUpdateEmail = <<>> THEN emails[emailId]
                      ELSE <<[mailboxIds |-> submission.onSuccessUpdateEmail[1].mailboxIds,
                              keywords |-> emails[emailId][1].keywords
                                  \ submission.onSuccessUpdateEmail[1].removeKeywords]>>
       IN  /\ submissions' = IF outcome = "created" THEN submissions \cup {emailId}
                             ELSE submissions
           /\ emails' = IF outcome = "created" /\ emails[emailId] # <<>>
                        THEN [emails EXCEPT ![emailId] = patched]
                        ELSE emails
           /\ send' = [send EXCEPT
                         !.pc = "done",
                         !.response =
                            CASE outcome = "created" -> <<"Sent: " \o emailId>>
                              [] outcome = "notCreated" ->
                                   <<"Error: Email created but submission failed">>
                              [] OTHER -> <<"Error: request failed">>]
    /\ UNCHANGED <<eventVars, textVars, extraVars, mailCall, cacheVars, calendarVars>>

\* the email tools called against one account
MailNext ==
    \/ \E flags \in SearchFlags : SearchTool(flags)
    \/ \E args \in UpdateFlagArgs : UpdateTool(args)
    \/ \E accountId \in Accounts, args \in SendArgs : CallSend(accountId, args)
    \/ \E outcome \in {"created", "notCreated", "throws"} : EmailSetAnswers(outcome)
    \/ \E outcome \in {"created", "notCreated", "throws"} : SubmissionSetAnswers(outcome)
MailSpec == Init /\ [][MailNext]_vars

-----------------------------------------------------------------------------
(* Claims about the email tools *)

\* the email satisfies the flag expression: it has the flag's keyword, or, for a
\* negated flag, does not have it
Satisfies(email, flag) ==
    IF SubSeq(flag, 1, 1) = "!"
    THEN flagKeyword(SubSeq(flag, 2, Len(flag))) \notin email.keywords
    ELSE flagKeyword(flag) \in email.keywords

\* a search call has just answered
SearchStep == mailCall' # mailCall /\ mailCall'[1].tool = "search"

\* an update call has just answered
UpdateFlagsStep == mailCall' # mailCall /\ mailCall'[1].tool = "update"

\* C21: a search with several flag expressions returns only emails that satisfy
\* every one of them: both keywords for ["read", "flagged"], and every negated
\* expression of the list as well.
C21_SearchSatisfiesAllFlags ==
    [][SearchStep =>
          \A id \in mailCall'[1].response :
             \A i \in 1..Len(mailCall'[1].args.flags) :
                Satisfies(emails[id][1], mailCall'[1].args.flags[i])]_vars

\* C28: an update with add_flags and/or remove_flags leaves set, on each listed
\* email, every keyword the email had that the call does not name.
C28_UnnamedKeywordsKept ==
    [][UpdateFlagsStep =>
          LET args == mailCall'[1].args
              named == DOMAIN updateKeywords(args)
          IN  \A i \in 1..Len(args.ids) :
                 emails[args.ids[i]] # <<>> =>
                    \A k \in emails[args.ids[i]][1].keywords :
                       k \notin named => k \in emails'[args.ids[i]][1].keywords]_vars

\* C22: a send with draft=true never creates an email submission on any path: no
\* step of the call adds a submission or reaches the submission request, and when
\* it answers "Draft saved" the email is stored in Drafts with $draft.
C22_DraftNeverSubmitted ==
    [][(send'.args # <<>> /\ send'.args[1].draft) =>
          /\ submissions' = submissions
          /\ send'.pc # "submitting"
          /\ (send'.response # send.response /\ send'.response = <<"Draft saved: e3">>)
                => /\ emails'["e3"] # <<>>
                   /\ "$draft" \in emails'["e3"][1].keywords
                   /\ emails'["e3"][1].mailboxIds
                         = {lookupMailbox(Mailboxes(send.accountId), "drafts")[1].id}]_vars

C22_Witness ==
    /\ send.pc = "done"
    /\ send.args[1].draft
    /\ send.response = <<"Draft saved: e3">>
    /\ emails["e3"] = <<[mailboxIds |-> {"b2"}, keywords |-> {"$draft"}]>>
    /\ submissions = {}

C29_FailedSendLeavesNothing ==
    [][(/\ send'.response # send.response
        /\ ~send'.args[1].draft
        /\ send'.response # <<"Sent: e3">>)
          => emails'["e3"] = <<>>]_vars

-----------------------------------------------------------------------------
(* Mailbox lookups through the mailbox cache.  resolveMailbox awaits the     *)
(* server twice when the cache is null or of another account, and looks the  *)
(* input up without a further await; getMailboxName awaits resolveMailbox in *)
(* that case and reads the cache when it is resumed.  Between two awaits a   *)
(* call runs alone.                                                          *)

\* the lookup of a call in the cached map, with the account id cached at that
\* moment: resolveMailbox looks "inbox" up, getMailboxName the name of the
\* account's first mailbox (the id itself when the map does not have it)
readCache(call, cache, cacheAccountId) ==
    LET mailboxId == Mailboxes(call.accountId)[1].id
        hit == lookupMailbox(cache[1], IF call.fn = "resolveMailbox"
                                       THEN "inbox" ELSE mailboxId)
    IN  [call EXCEPT
           !.pc = "done",
           !.readFor = cacheAccountId,
           !.answer = IF call.fn = "resolveMailbox" THEN hit
                      ELSE IF hit # <<>> /\ hit[1].id = mailboxId THEN <<hit[1].name>>
                      ELSE <<mailboxId>>]

\* resolveMailbox or getMailboxName is called: with the cache filled for the
\* account the call reads it at once, else Mailbox.query is sent
CallLookup(c, fn, accountId) ==
    /\ lookups[c] = <<>>
    /\ LET call == [fn |-> fn, accountId |-> accountId, pc |-> "query",
                    readFor |-> <<>>, answer |-> <<>>]
       IN  lookups' = [lookups EXCEPT ![c] =
                          IF mailboxCache = <<>> \/ mailboxCacheAccountId # <<accountId>>
                          THEN <<call>>
                          ELSE <<readCache(call, mailboxCache, mailboxCacheAccountId)>>]
    /\ UNCHANGED <<eventVars, textVars, extraVars, mailVars, mailboxCache,
                   mailboxCacheAccountId, calendarVars>>

\* Mailbox.query answers: Mailbox.get is sent
MailboxQueryAnswers(c) ==
    /\ lookups[c] # <<>>
    /\ lookups[c][1].pc = "query"
    /\ lookups' = [lookups EXCEPT ![c][1].pc = "get"]
    /\ UNCHANGED <<eventVars, textVars, extraVars, mailVars, mailboxCache,
                   mailboxCacheAccountId, calendarVars>>

\* Mailbox.get answers: resolveMailbox fills the cache for its account and looks its
\* input up; a getMailboxName that awaited it is resumed later
MailboxGetAnswers(c) ==
    /\ lookups[c] # <<>>
    /\ lookups[c][1].pc = "get"
    /\ mailboxCache' = <<Mailboxes(lookups[c][1].accountId)>>
    /\ mailboxCacheAccountId' = <<lookups[c][1].accountId>>
    /\ lookups' = [lookups EXCEPT ![c] =
                      IF lookups[c][1].fn = "resolveMailbox"
                      THEN <<readCache(lookups[c][1], mailboxCache', mailboxCacheAccountId')>>
                      ELSE <<[lookups[c][1] EXCEPT !.pc = "awaited"]>>]
    /\ UNCHANGED <<eventVars, textVars, extraVars, mailVars, calendarVars>>

\* getMailboxName is resumed after its await and reads the cache as it is now
GetMailboxNameResumes(c) ==
    /\ lookups[c] # <<>>
    /\ lookups[c][1].pc = "awaited"
    /\ lookups' = [lookups EXCEPT ![c] =
                      <<readCache(lookups[c][1], mailboxCache, mailboxCacheAccountId)>>]
    /\ UNCHANGED <<eventVars, textVars, extraVars, mailVars, mailboxCache,
                   mailboxCacheAccountId, calendarVars>>

\* callers looking mailboxes up for any account at the same time
MailboxNext ==
    \/ \E c \in 1..NumLookups, fn \in {"resolveMailbox", "getMailboxName"},
          accountId \in Accounts : CallLookup(c, fn, accountId)
    \/ \E c \in 1..NumLookups : MailboxQueryAnswers(c)
    \/ \E c \in 1..NumLookups : MailboxGetAnswers(c)
    \/ \E c \in 1..NumLookups : GetMailboxNameResumes(c)
MailboxSpec == Init /\ [][MailboxNext]_vars

-----------------------------------------------------------------------------
(* Calendar lookups through the calendar cache of registerCalendarTools *)

\* resolveCalendar on the list getCalendars returned: "default" is the first
\* calendar whose name does not start with "_" (else the first calendar), else the
\* calendar with that url, else the first with that display name whatever the
\* case; <<>> is undefined
resolveCalendar(list, nameOrUrl) ==
    LET all == 1..Len(list)
        visible == {i \in all : SubSeq(list[i].displayName, 1, 1) # "_"}
        byUrl == {i \in all : list[i].url = nameOrUrl}
        byName == {i \in all : toLowerCase(list[i].displayName) = toLowerCase(nameOrUrl)}
        hits == IF toLowerCase(nameOrUrl) = "default"
                THEN (IF visible # {} THEN visible ELSE all)
                ELSE IF byUrl # {} THEN byUrl
                ELSE byName
    IN  IF hits = {} THEN <<>>
        ELSE <<list[CHOOSE i \in hits : \A j \in hits : i <= j]>>

\* the calendar list changes on the server: the calendar Work is created, or the
\* calendar Personal is renamed to Home
ServerChangesCalendars(change) ==
    /\ IF change = "create"
       THEN /\ \A i \in 1..Len(calendars) : calendars[i].url # "/cal/work/"
            /\ calendars' = Append(calendars, [url |-> "/cal/work/", displayName |-> "Work"])
       ELSE /\ calendars[1].displayName = "Personal"
            /\ calendars' = [calendars EXCEPT ![1].displayName = "Home"]
    /\ UNCHANGED <<eventVars, textVars, extraVars, mailVars, cacheVars,
                   calendarsCache, resolving>>

\* a tool call resolves a calendar: getCalendars returns the cached list when there
\* is one, else it asks the server for the list
CallResolveCalendar(nameOrUrl) ==
    /\ resolving.pc # "fetching"
    /\ resolving' = IF calendarsCache # <<>>
                    THEN [pc |-> "done", nameOrUrl |-> nameOrUrl,
                          answer |-> resolveCalendar(calendarsCache[1], nameOrUrl)]
                    ELSE [pc |-> "fetching", nameOrUrl |-> nameOrUrl, answer |-> <<>>]
    /\ UNCHANGED <<eventVars, textVars, extraVars, mailVars, cacheVars,
                   calendars, calendarsCache>>

\* fetchCalendars answers with the server's list, which getCalendars caches and
\* resolveCalendar searches, or it throws and the tool call fails
FetchCalendarsAnswers(ok) ==
    /\ resolving.pc = "fetching"
    /\ calendarsCache' = IF ok THEN <<calendars>> ELSE calendarsCache
    /\ resolving' = IF ok
                    THEN [resolving EXCEPT !.pc = "done",
                             !.answer = resolveCalendar(calendars, resolving.nameOrUrl)]
                    ELSE [resolving EXCEPT !.pc = "failed"]
    /\ UNCHANGED <<eventVars, textVars, extraVars, mailVars, cacheVars, calendars>>

\* tool calls resolving calendars while the server's list changes
CalendarNext ==
    \/ \E change \in {"create", "rename"} : ServerChangesCalendars(change)
    \/ \E nameOrUrl \in {"default", "Personal", "/cal/personal/", "home", "Work", "work",
                         "/cal/work/"} :
          CallResolveCalendar(nameOrUrl)
    \/ \E ok \in BOOLEAN : FetchCalendarsAnswers(ok)
CalendarSpec == Init /\ [][CalendarNext]_vars

\* the same with calls for the new calendar made again and again and the server
\* answering a fetch of the list in the end
CalendarFairSpec ==
    /\ CalendarSpec
    /\ SF_vars(CallResolveCalendar("work"))
    /\ SF_vars(CallResolveCalendar("/cal/work/"))
    /\ SF_vars(FetchCalendarsAnswers(TRUE))

\* C30: a calendar created on the server after the first calendar listing of the
\* session becomes resolvable in a later tool call: once the server lists the
\* calendar Work, some later resolveCalendar call by its name or url answers with it.
C30_NewCalendarEventuallyResolvable ==
    (\E i \in 1..Len(calendars) : calendars[i].url = "/cal/work/")
       ~> (/\ resolving.pc = "done"
           /\ resolving.nameOrUrl \in {"Work", "work", "/cal/work/"}
           /\ resolving.answer # <<>>)

====
